---- MODULE Spec2Model ----
(***************************************************************************)
(* The verifier-input codec of scripts/prepare_input: prepare_verifier_input *)
(* and the functions it calls, as a state machine over one annotated proof. *)
(*                                                                         *)
(* Representation.                                                         *)
(*  - A String is a sequence of one-character strings ("10" is <<"1","0">>),*)
(*    except layout, which is the sequence of its bytes.                   *)
(*  - Option<T> is a sequence of length 0 (None) or 1 (Some).              *)
(*  - A BigInt that is an address, a value, a challenge or a product is an *)
(*    integer.  A BigInt of the public-input vector is a word record: Word(n)*)
(*    for a number, keccak256(data) for the integer of a digest.  The hash *)
(*    is modelled as an injective constructor over the sequence of 32-byte *)
(*    words it is fed.                                                     *)
(*  - TLC's integers are 32 bits wide, so the 252-bit field prime is scaled*)
(*    to a small prime; a 32-byte big-endian left-padded word is modelled  *)
(*    by the magnitude it encodes.                                         *)
(***************************************************************************)
EXTENDS Integers, Sequences, FiniteSets, TLC

\* K_MODULUS_STR (main.rs:11), scaled to a prime of TLC's integer range.
K_MODULUS == 251

\* The longest public_memory the model enumerates.
MaxCells == 3

\* The width of a proof word and of a digest in bytes (the 32 of main.rs:315),
\* scaled with the field prime; two_256 (main.rs:242) is scaled with it.
WORD_BYTES == 2
two_256 == 256 ^ WORD_BYTES

\* K_MONTGOMERY_R_INV (main.rs:209) for the scaled prime and word:
\* two_256 * k_montgomery_r_inv = 1 modulo K_MODULUS.
k_montgomery_r_inv == 241

\* The longest proof_hex (in hex digits) the model enumerates.
MaxHexLen == 6

\* The largest counter the transcript replay is followed to.
MaxCounter == 4

VARIABLES
    annotated_proof,                \* the parsed AnnotatedProof (input, never written)
    pc,                             \* position in prepare_verifier_input
    memory_page_facts,              \* MemoryPageFacts (main.rs:953)
    public_input_without_products,  \* main.rs:956
    z, alpha,                       \* main.rs:962
    page_prods,                     \* HashMap<u64, BigInt> (main.rs:973)
    cell_idx,                       \* next cell of the loop at main.rs:975
    public_input,                   \* main.rs:967
    verifier_input,                 \* Option<VerifierInput>, the value returned
    output_file,                    \* Option: the content of output_path (main.rs:1025)
    proof,                          \* main.rs:946
    proof_params_vec,               \* main.rs:949
    \* compute_interaction_elements_from_hash_and_proof (main.rs:200-301)
    public_input_hash,              \* parameter (never written)
    replay_proof,                   \* parameter proof (never written)
    digest, counter,                \* main.rs:221-222
    interaction_elements,           \* main.rs:258
    field_element,                  \* main.rs:262
    iteration,                      \* completed passes of the loop at main.rs:261
    rpc,                            \* position in the function
    \* two calls of prepare_verifier_input on annotated_proof
    first_run, second_run,          \* Option: what each call returned
    \* deploy (scripts/deploy/src/main.rs)
    command,                        \* cli.command: the network and its dry flag
    deploy_env,                     \* the environment: variable -> Option<String>
    rpc_url,                        \* deploy/main.rs:31
    is_dry,                         \* deploy/main.rs:38
    cmd,                            \* the arguments of the Command (deploy/main.rs:40)
    deploy_printed,                 \* the lines printed
    forge_runs,                     \* the command lines forge was started with
    status,                         \* Option: how forge exited
    dpc,                            \* position in main
    \* calculate_fri_steps (scripts/calculate_fri_steps/src/main.rs)
    fri_args,                       \* Args
    files,                          \* the file system: path -> Option<content>
    files_before,                   \* the file system when main began (never written)
    params,                         \* Option<CpuAirParams> (main.rs:103)
    fri_degree_bound,               \* main.rs:106
    fri_n_steps,                    \* main.rs:111
    new_fri_steps,                  \* main.rs:134
    fri_writes,                     \* the paths fs::write wrote, in order
    fpc,                            \* position in main
    \* verify_proof_split (scripts/verify_proof_split/src/main.rs)
    split_proofs,                   \* main.rs:99 (never written afterwards)
    input_json_file,                \* cli.input_json / INPUT_JSON and the file it names
    vi,                             \* the index of the loop being run
    sent,                           \* the calls issued, in order, with their outcomes
    input_json,                     \* Option: the document parsed at main.rs:203
    main_call,                      \* Option: the arguments encoded at main.rs:273-279
    verify_printed,                 \* the lines printed by steps 1 to 4
    vpc                             \* position in main

codec_vars == <<annotated_proof, pc, memory_page_facts,
                public_input_without_products, z, alpha, page_prods, cell_idx,
                public_input, verifier_input, proof, proof_params_vec, output_file>>

replay_vars == <<public_input_hash, replay_proof, digest, counter,
                 interaction_elements, field_element, iteration, rpc>>

\* The variables of the other programs of scripts/.
runs_vars == <<first_run, second_run>>
deploy_vars == <<command, deploy_env, rpc_url, is_dry, cmd, deploy_printed,
                 forge_runs, status, dpc>>
fri_vars == <<fri_args, files, files_before, params, fri_degree_bound, fri_n_steps,
              new_fri_steps, fri_writes, fpc>>
verify_vars == <<split_proofs, input_json_file, vi, sent, input_json, main_call,
                 verify_printed, vpc>>
tool_vars == <<runs_vars, deploy_vars, fri_vars, verify_vars>>

\* What the actions of one program leave alone.
other_than_runs == <<codec_vars, replay_vars, deploy_vars, fri_vars, verify_vars>>
other_than_deploy == <<codec_vars, replay_vars, runs_vars, fri_vars, verify_vars>>
other_than_fri == <<codec_vars, replay_vars, runs_vars, deploy_vars, verify_vars>>
other_than_verify == <<codec_vars, replay_vars, runs_vars, deploy_vars, fri_vars>>

vars == <<codec_vars, replay_vars, tool_vars>>

-----------------------------------------------------------------------------
(* Numbers, words and the hash                                             *)

Abs(n) == IF n < 0 THEN -n ELSE n

\* Rust's % on BigInt: the remainder truncates towards zero (sign of the dividend).
RustRem(a, b) == IF a >= 0 THEN a % b ELSE -((-a) % b)

Word(n) == [tag |-> "int", v |-> n, pre |-> <<>>]

\* keccak256 over a sequence of 32-byte words; BigInt::from_bytes_be of the
\* digest is the same record.
keccak256(data) == [tag |-> "keccak256", v |-> 0, pre |-> data]

\* val.to_bytes_be().1 copied right-aligned into [0u8; 32]: the sign is dropped.
Bytes32(w) == IF w.tag = "int" THEN Word(Abs(w.v)) ELSE w

\* The loop "for val in ...: bytes_32[32 - len..] = val; extend" followed by keccak256.
HashBigInts(vals) == keccak256([i \in 1..Len(vals) |-> Bytes32(Word(vals[i]))])

\* (n as f64).log2() as u32: the cast truncates and saturates, so 0 gives 0.
RECURSIVE Log2U32(_)
Log2U32(n) == IF n <= 1 THEN 0 ELSE 1 + Log2U32(n \div 2)

\* BigInt::from_bytes_be(Sign::Plus, bytes)
RECURSIVE FromBytesBE(_)
FromBytesBE(bytes) ==
    IF bytes = <<>> THEN 0
    ELSE 256 * FromBytesBE(SubSeq(bytes, 1, Len(bytes) - 1)) + bytes[Len(bytes)]

-----------------------------------------------------------------------------
(* Parsing of addresses and values                                         *)

HexChars == <<"0", "1", "2", "3", "4", "5", "6", "7", "8", "9",
              "a", "b", "c", "d", "e", "f">>

IsDigit(c, radix) == \E i \in 1..radix : HexChars[i] = c
DigitValue(c, radix) == (CHOOSE i \in 1..radix : HexChars[i] = c) - 1

RECURSIVE ParseDigits(_, _, _)
ParseDigits(s, radix, acc) ==
    IF s = <<>> THEN <<acc>>
    ELSE IF ~IsDigit(Head(s), radix) THEN <<>>
    ELSE ParseDigits(Tail(s), radix, acc * radix + DigitValue(Head(s), radix))

\* BigInt::parse_bytes(bytes, radix): None for an empty or non-digit string.
ParseBytes(s, radix) ==
    LET neg  == s # <<>> /\ Head(s) = "-"
        tail == IF neg THEN Tail(s) ELSE s
        mag  == IF tail = <<>> THEN <<>> ELSE ParseDigits(tail, radix, 0)
    IN  IF mag = <<>> THEN <<>>
        ELSE IF neg THEN <<-mag[1]>> ELSE mag

\* s.strip_prefix("0x").unwrap_or(s)
StripPrefix0x(s) ==
    IF Len(s) >= 2 /\ s[1] = "0" /\ s[2] = "x" THEN SubSeq(s, 3, Len(s)) ELSE s

ParseAddress(cell) == ParseBytes(cell.address, 10)
ParseValue(cell)   == ParseBytes(StripPrefix0x(cell.value), 16)

\* No .expect() on a cell of public_memory panics.
CellsParse(public_memory) ==
    \A i \in 1..Len(public_memory) :
        ParseAddress(public_memory[i]) # <<>> /\ ParseValue(public_memory[i]) # <<>>

\* The (page, address, value) of every cell, in public_memory order.
ParsedCells(public_memory) ==
    [i \in 1..Len(public_memory) |->
        [page    |-> public_memory[i].page,
         address |-> ParseAddress(public_memory[i])[1],
         value   |-> ParseValue(public_memory[i])[1]]]

-----------------------------------------------------------------------------
(* serialize_segments                                                      *)

segment_names == <<"program", "execution", "output", "pedersen", "range_check",
                   "ecdsa", "bitwise", "ec_op", "keccak", "poseidon">>

\* The loop of serialize_segments from name number i on; memory_segments is
\* a function from the names present to [begin_addr, stop_ptr].
RECURSIVE SerializeFrom(_, _, _)
SerializeFrom(memory_segments, names, i) ==
    IF i > Len(names) THEN <<>>
    ELSE (IF names[i] \in DOMAIN memory_segments
          THEN <<Word(memory_segments[names[i]].begin_addr),
                 Word(memory_segments[names[i]].stop_ptr)>>
          ELSE <<>>)
         \o SerializeFrom(memory_segments, names, i + 1)

\* A slip: the pair is pushed for the segments in reverse name order.
serialize_segments_reversed(p_input) ==
    SerializeFrom(p_input.memory_segments,
                  [i \in 1..Len(segment_names) |->
                      segment_names[Len(segment_names) + 1 - i]], 1)

serialize_segments(p_input) ==
    SerializeFrom(p_input.memory_segments, segment_names, 1)

-----------------------------------------------------------------------------
(* Pages                                                                   *)

Min(S) == CHOOSE x \in S : \A y \in S : x <= y
Max(S) == CHOOSE x \in S : \A y \in S : x >= y

\* keys().cloned().collect() followed by sort()
RECURSIVE SortedKeys(_)
SortedKeys(S) == IF S = {} THEN <<>> ELSE <<Min(S)>> \o SortedKeys(S \ {Min(S)})

\* pages.entry(page).or_insert_with(Vec::new).push(..) over all cells: every
\* page that has a cell, with its cells in public_memory order.
GroupByPage(cells) ==
    [p \in {cells[i].page : i \in 1..Len(cells)} |->
        SelectSeq(cells, LAMBDA c : c.page = p)]

\* [addr0, value0, addr1, value1, ...]
Interleave(cells) ==
    [k \in 1..(2 * Len(cells)) |->
        IF k % 2 = 1 THEN cells[(k + 1) \div 2].address ELSE cells[k \div 2].value]

-----------------------------------------------------------------------------
(* prepare_memory_page_facts                                               *)

\* A slip: the regular page is built from the cells of every page.
RegularPageAllCells(cells) ==
    IF cells = <<>> THEN <<>> ELSE <<[memory_pairs |-> Interleave(cells)]>>

\* pages.remove(&0).map(..)
RegularPage(cells) ==
    LET pages == GroupByPage(cells)
    IN  IF 0 \in DOMAIN pages THEN <<[memory_pairs |-> Interleave(pages[0])]>>
        ELSE <<>>

\* The loop "for (addr, val) in &cells: values[offset] = val" from cell i on.
RECURSIVE FillValues(_, _, _, _)
FillValues(values, cells, start_addr, i) ==
    IF i > Len(cells) THEN values
    ELSE LET offset == cells[i].address - start_addr
         IN  FillValues(IF offset < Len(values)
                        THEN [values EXCEPT ![offset + 1] = cells[i].value]
                        ELSE values,
                        cells, start_addr, i + 1)

\* A slip: the page starts at the address of its first cell, not at the minimum.
ContinuousPageFromFirst(cells) ==
    LET start_addr == cells[1].address
        end_addr   == Max({cells[i].address : i \in 1..Len(cells)})
        size       == end_addr - start_addr + 1
    IN  [start_addr |-> start_addr,
         values     |-> FillValues([k \in 1..size |-> 0],
                                   SelectSeq(cells, LAMBDA c : c.address >= start_addr),
                                   start_addr, 1)]

\* One iteration of "for page_num in page_numbers" over the cells of the page.
ContinuousPage(cells) ==
    LET start_addr == Min({cells[i].address : i \in 1..Len(cells)})
        end_addr   == Max({cells[i].address : i \in 1..Len(cells)})
        size       == end_addr - start_addr + 1
    IN  [start_addr |-> start_addr,
         values     |-> FillValues([k \in 1..size |-> 0], cells, start_addr, 1)]

ContinuousPages(cells) ==
    LET pages        == GroupByPage(cells)
        page_numbers == SortedKeys(DOMAIN pages \ {0})
    IN  [k \in 1..Len(page_numbers) |-> ContinuousPage(pages[page_numbers[k]])]

prepare_memory_page_facts(p_annotated_proof) ==
    LET cells == ParsedCells(p_annotated_proof.public_input.public_memory)
    IN  [regular_page     |-> RegularPage(cells),
         continuous_pages |-> ContinuousPages(cells)]

-----------------------------------------------------------------------------
(* prepare_public_input_without_products                                   *)

\* A slip: the vector of cairo_aux_input, which has no commitment-layer count.
PublicInputHeaderNoLayers(p_annotated_proof) ==
    <<Word(Log2U32(p_annotated_proof.public_input.n_steps)),
      Word(p_annotated_proof.public_input.rc_min),
      Word(p_annotated_proof.public_input.rc_max),
      Word(FromBytesBE(p_annotated_proof.public_input.layout))>>

\* The words pushed before the segments.
PublicInputHeader(p_annotated_proof) ==
    LET layers == p_annotated_proof.proof_parameters.n_verifier_friendly_commitment_layers
    IN  <<IF layers = <<>> THEN Word(0) ELSE Word(layers[1]),
          Word(Log2U32(p_annotated_proof.public_input.n_steps)),
          Word(p_annotated_proof.public_input.rc_min),
          Word(p_annotated_proof.public_input.rc_max),
          Word(FromBytesBE(p_annotated_proof.public_input.layout))>>

\* A slip: the padding is taken from the first cell of page 0.
PaddingFromRegularPage(cells) ==
    LET page0 == SelectSeq(cells, LAMBDA c : c.page = 0)
    IN  IF page0 # <<>> THEN <<Word(page0[1].address), Word(page0[1].value)>>
        ELSE <<Word(0), Word(0)>>

\* "Add padding (from first cell)"
Padding(cells) ==
    IF cells # <<>> THEN <<Word(cells[1].address), Word(cells[1].value)>>
    ELSE <<Word(0), Word(0)>>

\* A slip: the regular page is counted whether or not it exists.
NPagesRegularAlways(facts) == 1 + Len(facts.continuous_pages)

\* "Add number of pages"
NPages(facts) ==
    IF facts.regular_page # <<>> THEN 1 + Len(facts.continuous_pages)
    ELSE Len(facts.continuous_pages)

\* page.iter().skip(1).step_by(2)
ValuesOf(page) == [k \in 1..(Len(page) \div 2) |-> page[2 * k]]

\* A slip: the hash of a continuous page covers the addresses too.
PageHashWithAddresses(idx, page_num, page, facts) ==
    IF idx = 0 /\ page_num = 0
    THEN IF facts.regular_page # <<>>
         THEN HashBigInts(facts.regular_page[1].memory_pairs)
         ELSE HashBigInts(page)
    ELSE HashBigInts(page)

\* The page_hash of one iteration; idx counts from 0, page is the flat
\* [addr, value, ...] vector of the page.
PageHash(idx, page_num, page, facts) ==
    IF idx = 0 /\ page_num = 0
    THEN IF facts.regular_page # <<>>
         THEN HashBigInts(facts.regular_page[1].memory_pairs)
         ELSE HashBigInts(page)
    ELSE HashBigInts(ValuesOf(page))

\* A slip: the first address is pushed after the size and the hash.
PageInfoAddressLast(idx, page_num, page, facts) ==
    <<Word(Len(page) \div 2), PageHash(idx, page_num, page, facts)>>
    \o (IF idx = 0 /\ page_num = 0 THEN <<>> ELSE <<Word(page[1])>>)

\* The words one iteration of "for (idx, &page_num) in page_numbers" pushes.
PageInfo(idx, page_num, page, facts) ==
    (IF idx = 0 /\ page_num = 0 THEN <<>> ELSE <<Word(page[1])>>)
    \o <<Word(Len(page) \div 2), PageHash(idx, page_num, page, facts)>>

RECURSIVE PageInfosFrom(_, _, _, _)
PageInfosFrom(pages, page_numbers, facts, k) ==
    IF k > Len(page_numbers) THEN <<>>
    ELSE PageInfo(k - 1, page_numbers[k], Interleave(pages[page_numbers[k]]), facts)
         \o PageInfosFrom(pages, page_numbers, facts, k + 1)

PageInfos(cells, facts) ==
    LET pages == GroupByPage(cells)
    IN  PageInfosFrom(pages, SortedKeys(DOMAIN pages), facts, 1)

prepare_public_input_without_products(p_annotated_proof, facts) ==
    LET cells == ParsedCells(p_annotated_proof.public_input.public_memory)
    IN  PublicInputHeader(p_annotated_proof)
        \o serialize_segments(p_annotated_proof.public_input)
        \o Padding(cells)
        \o <<Word(NPages(facts))>>
        \o PageInfos(cells, facts)

-----------------------------------------------------------------------------
(* extract_interaction_elements and calculate_product                      *)

\* An annotation line is modelled by the hex strings the pattern captures on
\* it, left to right; a line that does not match captures none.
RECURSIVE Captures(_)
Captures(annotations) ==
    IF annotations = <<>> THEN <<>>
    ELSE Head(annotations) \o Captures(Tail(annotations))

\* A slip: the matches are collected from the last line to the first.
RECURSIVE InteractionElementsBackwards(_)
InteractionElementsBackwards(annotations) ==
    IF annotations = <<>> THEN <<>>
    ELSE InteractionElementsBackwards(Tail(annotations))
             \o [i \in 1..Len(Head(annotations)) |-> ParseBytes(Head(annotations)[i], 16)[1]]

\* The elements vector; the capture group admits hex digits only.
InteractionElements(annotations) ==
    LET caps == Captures(annotations)
    IN  [i \in 1..Len(caps) |-> ParseBytes(caps[i], 16)[1]]

\* A slip: the factor is reduced without adding the prime first.
calculate_product_signed(prod, p_z, p_alpha, memory_address, memory_value, prime) ==
    LET lin_comb == RustRem(memory_address + p_alpha * memory_value, prime)
        factor   == RustRem(p_z - lin_comb, prime)
    IN  RustRem(prod * factor, prime)

\* A slip: the running product is overwritten by the factor of the cell.
calculate_product_overwrite(prod, p_z, p_alpha, memory_address, memory_value, prime) ==
    LET lin_comb == RustRem(memory_address + p_alpha * memory_value, prime)
        factor   == RustRem(p_z - lin_comb + prime, prime)
    IN  RustRem(factor, prime)

calculate_product(prod, p_z, p_alpha, memory_address, memory_value, prime) ==
    LET lin_comb == RustRem(memory_address + p_alpha * memory_value, prime)
        factor   == RustRem(p_z - lin_comb + prime, prime)
    IN  RustRem(prod * factor, prime)

\* One iteration of "for cell in public_memory": entry(page).or_insert_with(one),
\* then *prod = calculate_product(..).
StepPageProds(prods, cell, p_z, p_alpha) ==
    LET prod == IF cell.page \in DOMAIN prods THEN prods[cell.page] ELSE 1
        next == calculate_product(prod, p_z, p_alpha, cell.address, cell.value, K_MODULUS)
    IN  [p \in DOMAIN prods \cup {cell.page} |->
            IF p = cell.page THEN next ELSE prods[p]]

\* The whole loop, from the map prods and cell i on.
RECURSIVE FoldPageProds(_, _, _, _, _)
FoldPageProds(prods, cells, i, p_z, p_alpha) ==
    IF i > Len(cells) THEN prods
    ELSE FoldPageProds(StepPageProds(prods, cells[i], p_z, p_alpha),
                       cells, i + 1, p_z, p_alpha)

\* A slip: the products are pushed without the sort, in an order a HashMap may
\* iterate in (here descending page number).
PageProductsUnsorted(prods) ==
    LET page_numbers == SortedKeys(DOMAIN prods)
        n            == Len(page_numbers)
    IN  [k \in 1..n |-> Word(prods[page_numbers[n + 1 - k]])]

\* "Add page products to public_input (in sorted order)"
PageProducts(prods) ==
    LET page_numbers == SortedKeys(DOMAIN prods)
    IN  [k \in 1..Len(page_numbers) |-> Word(prods[page_numbers[k]])]

-----------------------------------------------------------------------------
(* decode_hex, proof_hex_to_int_list and proof_params                      *)

\* u8::from_str_radix(s, 16).unwrap_or(0) on a slice of one or two characters.
FromStrRadixU8(s) ==
    LET parsed == ParseDigits(s, 16, 0)
    IN  IF parsed = <<>> THEN 0 ELSE parsed[1]

\* The map over (0..len).step_by(2): the slice at i is two characters long,
\* or one when a single character is left.
RECURSIVE DecodeFrom(_, _)
DecodeFrom(hex_clean, i) ==
    IF i > Len(hex_clean) THEN <<>>
    ELSE <<FromStrRadixU8(SubSeq(hex_clean, i, Min({i + 1, Len(hex_clean)})))>>
             \o DecodeFrom(hex_clean, i + 2)

decode_hex(s) == DecodeFrom(StripPrefix0x(s), 1)

\* A slip: the zeros are put in front of the bytes.
PadToWordsInFront(proof_bytes) ==
    [i \in 1..((WORD_BYTES - (Len(proof_bytes) % WORD_BYTES)) % WORD_BYTES) |-> 0]
        \o proof_bytes

\* while proof_bytes.len() % 32 != 0 { proof_bytes.push(0) }
PadToWords(proof_bytes) ==
    proof_bytes \o
        [i \in 1..((WORD_BYTES - (Len(proof_bytes) % WORD_BYTES)) % WORD_BYTES) |-> 0]

\* for chunk in proof_bytes.chunks(32): the big-endian integer of the chunk.
Chunks(proof_bytes) ==
    [k \in 1..(Len(proof_bytes) \div WORD_BYTES) |->
        FromBytesBE(SubSeq(proof_bytes, (k - 1) * WORD_BYTES + 1, k * WORD_BYTES))]

proof_hex_to_int_list(proof_hex) == Chunks(PadToWords(decode_hex(proof_hex)))

\* ((n as f64).log2().ceil()) as u32: the cast saturates, so 0 gives 0.
CeilLog2U32(n) == IF n <= 1 THEN 0 ELSE 1 + Log2U32(n - 1)

proof_params(p_annotated_proof) ==
    LET stark_params == p_annotated_proof.proof_parameters.stark
        fri_params   == stark_params.fri
    IN  <<fri_params.n_queries, stark_params.log_n_cosets,
          fri_params.proof_of_work_bits,
          CeilLog2U32(fri_params.last_layer_degree_bound),
          Len(fri_params.fri_step_list)>> \o fri_params.fri_step_list

-----------------------------------------------------------------------------
(* prepare_verifier_input with the iteration order of its hash maps        *)

\* What keys().cloned().collect() can return for a map with the key set S:
\* the keys once each, in any order.
KeyOrders(S) ==
    {order \in [1..Cardinality(S) -> S] : \A k \in S : \E i \in DOMAIN order : order[i] = k}

\* A slip: the collected keys are used as the map yields them.
NoSort(page_numbers) == page_numbers

\* page_numbers.sort(): ascending, by insertion of each element in turn.
RECURSIVE Sort(_)
Sort(page_numbers) ==
    IF page_numbers = <<>> THEN <<>>
    ELSE LET last   == page_numbers[Len(page_numbers)]
             sorted == Sort(SubSeq(page_numbers, 1, Len(page_numbers) - 1))
         IN  SelectSeq(sorted, LAMBDA k : k <= last) \o <<last>>
                 \o SelectSeq(sorted, LAMBDA k : k > last)

\* main.rs:747-792 with the keys as collected.
ContinuousPagesIn(cells, keys) ==
    LET pages        == GroupByPage(cells)
        page_numbers == Sort(keys)
    IN  [k \in 1..Len(page_numbers) |-> ContinuousPage(pages[page_numbers[k]])]

\* main.rs:820-937 with the keys as collected.
PublicInputWithoutProductsIn(p_annotated_proof, facts, keys) ==
    LET cells == ParsedCells(p_annotated_proof.public_input.public_memory)
    IN  PublicInputHeader(p_annotated_proof)
        \o serialize_segments(p_annotated_proof.public_input)
        \o Padding(cells)
        \o <<Word(NPages(facts))>>
        \o PageInfosFrom(GroupByPage(cells), Sort(keys), facts, 1)

\* main.rs:992-997 with the keys as collected.
PageProductsIn(prods, keys) ==
    LET page_numbers == Sort(keys)
    IN  [k \in 1..Len(page_numbers) |-> Word(prods[page_numbers[k]])]

\* What a call of prepare_verifier_input comes to: a panic, or the document.
Panicked == [panicked |-> TRUE, document |-> <<>>]

\* prepare_verifier_input (main.rs:942-1007) as one function of the proof
\* and of the orders in which its three maps yield their keys.
prepare_verifier_input(p_annotated_proof, fact_keys, info_keys, prod_keys) ==
    LET public_memory == p_annotated_proof.public_input.public_memory
        elements      == InteractionElements(p_annotated_proof.annotations)
    IN  IF ~CellsParse(public_memory) \/ Len(elements) < 2 THEN Panicked
        ELSE LET cells == ParsedCells(public_memory)
                 facts == [regular_page     |-> RegularPage(cells),
                           continuous_pages |-> ContinuousPagesIn(cells, fact_keys)]
                 prods == FoldPageProds(<<>>, cells, 1, elements[1], elements[2])
             IN  [panicked |-> FALSE,
                  document |->
                      <<[proof_params      |-> proof_params(p_annotated_proof),
                         proof             |-> proof_hex_to_int_list(p_annotated_proof.proof_hex),
                         public_input      |->
                             PublicInputWithoutProductsIn(p_annotated_proof, facts, info_keys)
                                 \o PageProductsIn(prods, prod_keys),
                         z                 |-> elements[1],
                         alpha             |-> elements[2],
                         memory_page_facts |-> facts]>>]

-----------------------------------------------------------------------------
(* compute_interaction_elements_from_hash_and_proof                        *)

\* A digest: the hash of the words data, whose big-endian integer is value.
\* The integer of a digest is not computed from its input; each step of the
\* replay draws it from DigestValues.
Digest(data, value) == [keccak256(data) EXCEPT !.v = value]

\* main.rs:218
bound == K_MODULUS * 31

\* The integers a digest takes: the least, the two around bound, the greatest.
DigestValues == {0, bound - 1, bound, two_256 - 1}

\* A slip: the increment of the digest is not reduced modulo 2^256.
MixInputNoWrap(p_digest, trace_commitment) ==
    <<Word(p_digest.v + 1), Bytes32(Word(trace_commitment))>>

\* main.rs:229-253: digest_plus_one_bytes followed by trace_commitment_bytes.
MixInput(p_digest, trace_commitment) ==
    <<Word((p_digest.v + 1) % two_256), Bytes32(Word(trace_commitment))>>

\* A slip: a digest equal to bound is accepted.
RetryAboveBound(p_field_element) == p_field_element > bound

\* The condition of the while loop at main.rs:265.
Retry(p_field_element) == p_field_element >= bound

\* main.rs:267-276 and 287-293: the counter is incremented, then the digest and
\* the incremented counter (as 32 bytes) are the input of the hash.
CounterHashInput(p_digest, p_counter) == <<p_digest, Word(p_counter + 1)>>

\* main.rs:283
FromMontgomery(p_field_element) == (p_field_element * k_montgomery_r_inv) % K_MODULUS

\* A slip: the digest and the counter are left as they are after a challenge.
NoAdvance(p_digest, p_counter, value) ==
    [digest |-> p_digest, counter |-> p_counter]

\* main.rs:287-294
Advance(p_digest, p_counter, value) ==
    [digest  |-> Digest(CounterHashInput(p_digest, p_counter), value),
     counter |-> p_counter + 1]

-----------------------------------------------------------------------------
(* The annotated proofs the model runs on                                  *)

AllSegmentNames == {segment_names[i] : i \in 1..Len(segment_names)} \cup {"builtin_x"}

\* A different (begin_addr, stop_ptr) for every name.
SegmentOf(name) ==
    LET i == IF name = "builtin_x" THEN 11
             ELSE CHOOSE k \in 1..Len(segment_names) : segment_names[k] = name
    IN  [begin_addr |-> 100 + i, stop_ptr |-> 200 + i]

Segments(names) == [n \in names |-> SegmentOf(n)]

Cell(page, address, value) == [page |-> page, address |-> address, value |-> value]

\* Cells of the regular page and of two continuous pages: gaps (10, 12),
\* a repeated address, descending addresses, values with and without "0x".
GoodCells ==
    { Cell(0, <<"1">>, <<"0", "x", "5">>),
      Cell(0, <<"2">>, <<"0", "x", "7">>),
      Cell(0, <<"2">>, <<"5">>),
      Cell(1, <<"1", "0">>, <<"0", "x", "5">>),
      Cell(1, <<"1", "2">>, <<"7">>),
      Cell(1, <<"1", "0">>, <<"7">>),
      Cell(1, <<"1", "1">>, <<"0", "x", "1", "0">>),
      Cell(2, <<"1", "2">>, <<"0", "x", "5">>),
      Cell(2, <<"1", "0">>, <<"7">>) }

\* Cells on which an .expect() panics.
BadCells ==
    { Cell(1, <<"1", "a">>, <<"0", "x", "5">>),
      Cell(0, <<"1">>, <<"0", "x", "g">>),
      Cell(0, <<>>, <<"5">>) }

SeqsUpTo(S, n) == UNION {[1..k -> S] : k \in 0..n}

\* z = 3 and alpha = 2 on two lines around a line without a match.
BaseAnnotations == << <<<<"3">>>>, <<>>, <<<<"2">>>> >>

AnnotationInputs ==
    { \* both elements on one line; a third match that is ignored
      << <<<<"0">>, <<"0">>>>, <<<<"5">>>> >>,
      << <<<<"3">>>>, <<<<"0">>>> >>,
      << <<<<"3">>>>, <<<<"3">>>> >>,
      << <<<<"5">>>>, <<<<"2">>>> >>,
      << <<<<"1", "1">>>>, <<<<"7">>>> >>,
      \* values at or above the modulus (0xfb)
      << <<<<"f", "b">>>>, <<<<"2">>>> >>,
      << <<<<"f", "f">>>>, <<<<"1", "0", "0">>>> >>,
      << <<<<"1", "2">>, <<"1", "f", "6">>>> >>,
      \* fewer than two matches
      << <<>>, <<<<"3">>>> >>,
      <<>> }

BasePublicMemory ==
    << Cell(0, <<"1">>, <<"0", "x", "5">>), Cell(0, <<"2">>, <<"0", "x", "7">>),
       Cell(1, <<"1", "0">>, <<"0", "x", "5">>), Cell(1, <<"1", "2">>, <<"7">>) >>

Stark(log_n_cosets, n_queries, proof_of_work_bits, last_layer_degree_bound, fri_step_list) ==
    [log_n_cosets |-> log_n_cosets,
     fri          |-> [n_queries               |-> n_queries,
                       proof_of_work_bits      |-> proof_of_work_bits,
                       last_layer_degree_bound |-> last_layer_degree_bound,
                       fri_step_list           |-> fri_step_list]]

BaseStark == Stark(2, 10, 30, 64, <<0, 4, 3>>)

BaseProofHex == <<"0", "x", "1", "a", "2", "b", "0", "0", "f", "f">>

ProofOf(n_steps, rc_min, rc_max, layout, segs, memory, layers, annotations, proof_hex, stark) ==
    [annotations      |-> annotations,
     proof_hex        |-> proof_hex,
     public_input     |-> [n_steps         |-> n_steps,
                           rc_min          |-> rc_min,
                           rc_max          |-> rc_max,
                           layout          |-> layout,
                           memory_segments |-> segs,
                           public_memory   |-> memory],
     proof_parameters |-> [stark |-> stark,
                           n_verifier_friendly_commitment_layers |-> layers]]

Proof(n_steps, rc_min, rc_max, layout, segs, memory, layers, annotations) ==
    ProofOf(n_steps, rc_min, rc_max, layout, segs, memory, layers, annotations,
            BaseProofHex, BaseStark)

BaseSegments == Segments({"program", "execution", "output"})

\* Every header, with the base segments, memory and annotations.
HeaderProofs ==
    { Proof(n, lo, 7, l, BaseSegments, BasePublicMemory, v, BaseAnnotations) :
        n \in {0, 1, 2, 5, 8, 1024}, lo \in {-1, 0},
        l \in {<<>>, <<115>>, <<115, 109>>}, v \in {<<>>, <<0>>, <<2>>} }

\* Every set of segment names.
SegmentProofs ==
    { Proof(8, 0, 7, <<115>>, Segments(names), BasePublicMemory, <<>>, BaseAnnotations) :
        names \in SUBSET AllSegmentNames }

\* Every public memory of at most MaxCells cells.
MemoryProofs ==
    { Proof(8, 0, 7, <<115>>, BaseSegments, m, <<>>, BaseAnnotations) :
        m \in SeqsUpTo(GoodCells, MaxCells) }

\* Every pair of challenges, on the memories of at most two cells.
ChallengeProofs ==
    { Proof(8, 0, 7, <<115>>, BaseSegments, m, <<>>, a) :
        m \in SeqsUpTo(GoodCells, 2), a \in AnnotationInputs }

\* Memories with a cell that does not parse.
MalformedProofs ==
    { Proof(8, 0, 7, <<115>>, BaseSegments, m, <<>>, BaseAnnotations) :
        m \in {mm \in SeqsUpTo(GoodCells \cup BadCells, 2) :
                  \E i \in 1..Len(mm) : mm[i] \in BadCells} }

\* proof_hex: every string of at most MaxHexLen of the digits 0 and f, with
\* and without the prefix, and strings with a character that is no hex digit.
HexStrings ==
    LET digits == SeqsUpTo({"0", "f"}, MaxHexLen)
    IN  digits \cup {<<"0", "x">> \o s : s \in digits}
            \cup { <<"z", "z">>, <<"f", "z", "1", "0">>, <<"1", "0", "g">>,
                   <<"0", "x", "1", "2", "3">> }

HexProofs ==
    { ProofOf(8, 0, 7, <<115>>, BaseSegments, <<>>, <<>>, BaseAnnotations, h, BaseStark) :
        h \in HexStrings }

\* The parameters of the STARK.
StarkProofs ==
    { ProofOf(8, 0, 7, <<115>>, BaseSegments, <<>>, <<>>, BaseAnnotations, BaseProofHex,
              Stark(c, 10, 30, d, s)) :
        c \in {0, 2}, d \in {0, 1, 2, 3, 64, 100}, s \in {<<>>, <<0, 4, 3>>} }

Proofs == HeaderProofs \cup SegmentProofs \cup MemoryProofs
          \cup ChallengeProofs \cup MalformedProofs
          \cup HexProofs \cup StarkProofs

-----------------------------------------------------------------------------
(* prepare_verifier_input, step by step                                    *)

NoFacts == [regular_page |-> <<>>, continuous_pages |-> <<>>]

\* The variables of prepare_verifier_input before its first statement.
CodecInit(proofs, at) ==
    /\ annotated_proof \in proofs
    /\ pc = at
    /\ memory_page_facts = NoFacts
    /\ public_input_without_products = <<>>
    /\ z = 0
    /\ alpha = 0
    /\ page_prods = <<>>
    /\ cell_idx = 1
    /\ public_input = <<>>
    /\ verifier_input = <<>>
    /\ proof = <<>>
    /\ proof_params_vec = <<>>
    /\ output_file = <<>>

\* The variables of the replay at main.rs:221-222 and 258.
ReplayInit(hashes, proofs, at) ==
    /\ public_input_hash \in hashes
    /\ replay_proof \in proofs
    /\ digest = public_input_hash
    /\ counter = 0
    /\ interaction_elements = <<>>
    /\ field_element = 0
    /\ iteration = 0
    /\ rpc = at

\* No call of the pair has returned.
RunsInit ==
    /\ first_run = <<>>
    /\ second_run = <<>>

\* deploy before main: a subcommand, an environment.
DeployInit(commands, envs, at) ==
    /\ command \in commands
    /\ deploy_env \in envs
    /\ rpc_url = ""
    /\ is_dry = FALSE
    /\ cmd = <<>>
    /\ deploy_printed = <<>>
    /\ forge_runs = <<>>
    /\ status = <<>>
    /\ dpc = at

DeployIdle ==
    DeployInit({[network |-> "Sepolia", dry |-> FALSE]},
               {[v \in {"SEPOLIA_RPC_URL", "BASE_SEPOLIA_RPC_URL"} |-> <<>>]}, "idle")

\* calculate_fri_steps before main: the arguments, the files.
FriInit(runs, at) ==
    /\ \E run \in runs :
           /\ fri_args = run.args
           /\ files = run.files
    /\ files_before = files
    /\ params = <<>>
    /\ fri_degree_bound = 0
    /\ fri_n_steps = 0
    /\ new_fri_steps = <<>>
    /\ fri_writes = <<>>
    /\ fpc = at

FriIdle ==
    FriInit({[args  |-> [params_file |-> "params.json", degree_bound |-> <<>>,
                         n_steps |-> <<>>, public_input |-> <<>>, output |-> <<>>,
                         dry_run |-> TRUE],
              files |-> [p \in {"params.json"} |-> <<>>]]}, "idle")

\* verify_proof_split before step 1, for each (split proofs, input file) of runs.
VerifyInit(runs, at) ==
    /\ \E r \in runs :
           /\ split_proofs = r.split_proofs
           /\ input_json_file = r.input_json_file
    /\ vi = 0
    /\ sent = <<>>
    /\ input_json = <<>>
    /\ main_call = <<>>
    /\ verify_printed = <<>>
    /\ vpc = at

VerifyIdle ==
    VerifyInit({[split_proofs    |-> [merkle_statements |-> {}, fri_merkle_statements |-> 0,
                                      continuous_pages |-> 0],
                 input_json_file |-> <<>>]}, "idle")

\* The other programs are not running.
ToolsIdle ==
    /\ RunsInit
    /\ DeployIdle
    /\ FriIdle
    /\ VerifyIdle

\* prepare_verifier_input never calls the replay: its variables stay idle.
Init ==
    /\ CodecInit(Proofs, "start")
    /\ ReplayInit({Digest(<<>>, 0)}, {<<>>}, "idle")
    /\ ToolsIdle

\* main.rs:946-949; neither function fails.
ProofHexToIntList ==
    /\ pc = "start"
    /\ proof' = proof_hex_to_int_list(annotated_proof.proof_hex)
    /\ proof_params_vec' = proof_params(annotated_proof)
    /\ pc' = "converted"
    /\ UNCHANGED <<replay_vars, tool_vars, output_file, annotated_proof, memory_page_facts,
                   public_input_without_products, z, alpha, page_prods, cell_idx,
                   public_input, verifier_input>>

\* main.rs:953; the first .expect() that fails on a cell panics.
PrepareMemoryPageFacts ==
    /\ pc = "converted"
    /\ IF CellsParse(annotated_proof.public_input.public_memory)
       THEN /\ memory_page_facts' = prepare_memory_page_facts(annotated_proof)
            /\ pc' = "facts"
       ELSE /\ pc' = "panicked"
            /\ UNCHANGED memory_page_facts
    /\ UNCHANGED <<replay_vars, tool_vars, output_file, proof, proof_params_vec, annotated_proof, public_input_without_products, z, alpha,
                   page_prods, cell_idx, public_input, verifier_input>>

\* main.rs:956-957
PreparePublicInputWithoutProducts ==
    /\ pc = "facts"
    /\ public_input_without_products' =
           prepare_public_input_without_products(annotated_proof, memory_page_facts)
    /\ pc' = "without_products"
    /\ UNCHANGED <<replay_vars, tool_vars, output_file, proof, proof_params_vec, annotated_proof, memory_page_facts, z, alpha, page_prods,
                   cell_idx, public_input, verifier_input>>

\* main.rs:962-973: the challenges, the clone of the vector, the empty map.
ExtractInteractionElements ==
    /\ pc = "without_products"
    /\ LET elements == InteractionElements(annotated_proof.annotations)
       IN  IF Len(elements) < 2
           THEN /\ pc' = "panicked"
                /\ UNCHANGED <<z, alpha, public_input, page_prods, cell_idx>>
           ELSE /\ z' = elements[1]
                /\ alpha' = elements[2]
                /\ public_input' = public_input_without_products
                /\ page_prods' = <<>>
                /\ cell_idx' = 1
                /\ pc' = "products"
    /\ UNCHANGED <<replay_vars, tool_vars, output_file, proof, proof_params_vec, annotated_proof, memory_page_facts,
                   public_input_without_products, verifier_input>>

\* One iteration of the loop at main.rs:975-990.
CalculatePageProduct ==
    /\ pc = "products"
    /\ cell_idx <= Len(annotated_proof.public_input.public_memory)
    /\ page_prods' =
           StepPageProds(page_prods,
                         ParsedCells(annotated_proof.public_input.public_memory)[cell_idx],
                         z, alpha)
    /\ cell_idx' = cell_idx + 1
    /\ UNCHANGED <<replay_vars, tool_vars, output_file, proof, proof_params_vec, annotated_proof, pc, memory_page_facts,
                   public_input_without_products, z, alpha, public_input,
                   verifier_input>>

\* main.rs:992-997
AppendPageProducts ==
    /\ pc = "products"
    /\ cell_idx > Len(annotated_proof.public_input.public_memory)
    /\ public_input' = public_input \o PageProducts(page_prods)
    /\ pc' = "assembled"
    /\ UNCHANGED <<replay_vars, tool_vars, output_file, proof, proof_params_vec, annotated_proof, memory_page_facts,
                   public_input_without_products, z, alpha, page_prods, cell_idx,
                   verifier_input>>

\* main.rs:999-1006
ReturnVerifierInput ==
    /\ pc = "assembled"
    /\ verifier_input' = <<[proof_params      |-> proof_params_vec,
                            proof             |-> proof,
                            public_input      |-> public_input,
                            z                 |-> z,
                            alpha             |-> alpha,
                            memory_page_facts |-> memory_page_facts]>>
    /\ pc' = "done"
    /\ UNCHANGED <<replay_vars, tool_vars, output_file, proof, proof_params_vec, annotated_proof, memory_page_facts,
                   public_input_without_products, z, alpha, page_prods, cell_idx,
                   public_input>>

\* main.rs:1020-1026, after prepare_verifier_input returned: the document is
\* serialized and written, or fs::write fails to create the file and main panics.
WriteOutput ==
    /\ pc = "done"
    /\ \/ /\ output_file' = verifier_input
          /\ pc' = "written"
       \/ /\ pc' = "write_failed"
          /\ UNCHANGED output_file
    /\ UNCHANGED <<replay_vars, tool_vars, proof, proof_params_vec, annotated_proof,
                   memory_page_facts, public_input_without_products, z, alpha,
                   page_prods, cell_idx, public_input, verifier_input>>

Next ==
    \/ ProofHexToIntList
    \/ PrepareMemoryPageFacts
    \/ PreparePublicInputWithoutProducts
    \/ ExtractInteractionElements
    \/ CalculatePageProduct
    \/ AppendPageProducts
    \/ ReturnVerifierInput
    \/ WriteOutput

Spec == Init /\ [][Next]_vars

-----------------------------------------------------------------------------
(* Two calls of prepare_verifier_input on one annotated proof              *)

\* Cells of three pages, page 2 met before page 1 in some memories.
RunCells ==
    { Cell(0, <<"1">>, <<"0", "x", "5">>),
      Cell(1, <<"1", "2">>, <<"7">>),
      Cell(1, <<"1", "0">>, <<"0", "x", "5">>),
      Cell(2, <<"1", "0">>, <<"7">>) }

RunProofs ==
    { Proof(8, 0, 7, <<115>>, BaseSegments, m, <<>>, a) :
        m \in SeqsUpTo(RunCells, 3),
        a \in {BaseAnnotations, << <<<<"f", "f">>>>, <<<<"1", "0", "0">>>> >>} }
    \cup
    { Proof(8, 0, 7, <<115>>, BaseSegments, m, <<>>, a) :
        m \in SeqsUpTo(RunCells \cup BadCells, 1), a \in {BaseAnnotations, <<>>} }

InitRuns ==
    /\ CodecInit(RunProofs, "idle")
    /\ ReplayInit({Digest(<<>>, 0)}, {<<>>}, "idle")
    /\ RunsInit
    /\ DeployIdle
    /\ FriIdle
    /\ VerifyIdle

\* The key sets of the three maps (main.rs:749, 885, 993); a proof whose
\* cells do not parse panics before any map is iterated.
MapKeys(p_annotated_proof) ==
    IF CellsParse(p_annotated_proof.public_input.public_memory)
    THEN {p_annotated_proof.public_input.public_memory[i].page :
             i \in 1..Len(p_annotated_proof.public_input.public_memory)}
    ELSE {}

\* A call, with each map yielding its keys in an order of its own.
Call(p_annotated_proof) ==
    { prepare_verifier_input(p_annotated_proof, fact_keys, info_keys, prod_keys) :
        fact_keys \in KeyOrders(MapKeys(p_annotated_proof) \ {0}),
        info_keys \in KeyOrders(MapKeys(p_annotated_proof)),
        prod_keys \in KeyOrders(MapKeys(p_annotated_proof)) }

FirstRun ==
    /\ first_run = <<>>
    /\ \E result \in Call(annotated_proof) : first_run' = <<result>>
    /\ UNCHANGED <<other_than_runs, second_run>>

SecondRun ==
    /\ first_run # <<>>
    /\ second_run = <<>>
    /\ \E result \in Call(annotated_proof) : second_run' = <<result>>
    /\ UNCHANGED <<other_than_runs, first_run>>

NextRuns ==
    \/ FirstRun
    \/ SecondRun

SpecRuns == InitRuns /\ [][NextRuns]_vars

-----------------------------------------------------------------------------
(* deploy                                                                  *)

\* deploy/main.rs:31-36: the variable the subcommand reads.
RpcUrlVar(p_command) ==
    IF p_command.network = "Sepolia" THEN "SEPOLIA_RPC_URL" ELSE "BASE_SEPOLIA_RPC_URL"

\* deploy/main.rs:38: matches!(.., Sepolia { dry } | BaseSepolia { dry } if *dry)
IsDry(p_command) ==
    p_command.network \in {"Sepolia", "BaseSepolia"} /\ p_command.dry

\* deploy/main.rs:40-45
ScriptArgs(p_rpc_url) ==
    <<"forge", "script", "script/Deploy.s.sol:DeployScript", "--rpc-url", p_rpc_url,
      "-vvvv">>

\* A slip: the flag is added whether or not the run is dry.
AlwaysBroadcast(p_cmd, p_is_dry) == Append(p_cmd, "--broadcast")

\* deploy/main.rs:47-48
WithBroadcast(p_cmd, p_is_dry) ==
    IF ~p_is_dry THEN Append(p_cmd, "--broadcast") ELSE p_cmd

Subcommands == [network : {"Sepolia", "BaseSepolia"}, dry : BOOLEAN]

Environments ==
    [{"SEPOLIA_RPC_URL", "BASE_SEPOLIA_RPC_URL"} -> {<<>>, <<"url_a">>, <<"url_b">>}]

InitDeploy ==
    /\ CodecInit({Proof(8, 0, 7, <<115>>, BaseSegments, <<>>, <<>>, BaseAnnotations)},
                 "idle")
    /\ ReplayInit({Digest(<<>>, 0)}, {<<>>}, "idle")
    /\ RunsInit
    /\ DeployInit(Subcommands, Environments, "parsed")
    /\ FriIdle
    /\ VerifyIdle

\* deploy/main.rs:31-36; .expect() panics when the variable is not set.
ReadRpcUrl ==
    /\ dpc = "parsed"
    /\ LET value == deploy_env[RpcUrlVar(command)]
       IN  IF value = <<>>
           THEN /\ dpc' = "panicked"
                /\ UNCHANGED rpc_url
           ELSE /\ rpc_url' = value[1]
                /\ dpc' = "url"
    /\ UNCHANGED <<other_than_deploy, command, deploy_env, is_dry, cmd,
                   deploy_printed, forge_runs, status>>

\* deploy/main.rs:38-45
NewCommand ==
    /\ dpc = "url"
    /\ is_dry' = IsDry(command)
    /\ cmd' = ScriptArgs(rpc_url)
    /\ dpc' = "command"
    /\ UNCHANGED <<other_than_deploy, command, deploy_env, rpc_url, deploy_printed,
                   forge_runs, status>>

\* deploy/main.rs:47-52
AddBroadcast ==
    /\ dpc = "command"
    /\ cmd' = WithBroadcast(cmd, is_dry)
    /\ deploy_printed' =
           Append(deploy_printed,
                  IF ~is_dry THEN "Deploying to network..."
                  ELSE "Simulating deployment (dry run)...")
    /\ dpc' = "ready"
    /\ UNCHANGED <<other_than_deploy, command, deploy_env, rpc_url, is_dry,
                   forge_runs, status>>

\* deploy/main.rs:54: forge cannot be started (the ? returns the error), or it
\* runs to an exit status.
RunForge ==
    /\ dpc = "ready"
    /\ \/ /\ dpc' = "error"
          /\ UNCHANGED <<forge_runs, status>>
       \/ /\ forge_runs' = Append(forge_runs, cmd)
          /\ \E success \in BOOLEAN : status' = <<success>>
          /\ dpc' = "exited"
    /\ UNCHANGED <<other_than_deploy, command, deploy_env, rpc_url, is_dry, cmd,
                   deploy_printed>>

\* deploy/main.rs:56-65
ReportStatus ==
    /\ dpc = "exited"
    /\ IF status[1]
       THEN /\ deploy_printed' =
                   Append(deploy_printed,
                          IF ~is_dry THEN "Deployment complete!" ELSE "Simulation complete!")
            /\ dpc' = "ok"
       ELSE /\ dpc' = "error"
            /\ UNCHANGED deploy_printed
    /\ UNCHANGED <<other_than_deploy, command, deploy_env, rpc_url, is_dry, cmd,
                   forge_runs, status>>

NextDeploy ==
    \/ ReadRpcUrl
    \/ NewCommand
    \/ AddBroadcast
    \/ RunForge
    \/ ReportStatus

SpecDeploy == InitDeploy /\ [][NextDeploy]_vars

-----------------------------------------------------------------------------
(* calculate_fri_steps                                                     *)

\* (x.log2().round()) as u32 for x = n / d with n, d >= 1: the integer nearest
\* to log2(n / d), 0 when that is negative (the cast saturates).  k is the
\* nearest integer when n / d < 2^(k + 1/2), that is n^2 < 2^(2k + 1) d^2;
\* a ratio of integers is never 2^(k + 1/2) itself.
RECURSIVE RoundLog2From(_, _, _)
RoundLog2From(n, d, k) ==
    IF n * n < (2 ^ (2 * k + 1)) * d * d THEN k ELSE RoundLog2From(n, d, k + 1)

\* The cast of an infinite or a NaN logarithm: n = 0 gives -inf or NaN, which
\* is cast to 0.
RoundLog2U32(n, d) == IF n = 0 THEN 0 ELSE RoundLog2From(n, d, 0)

\* n / 0 is +inf for n > 0: the cast gives u32::MAX and the + 4 overflows.
FriDegreeOverflows(n, d) == n > 0 /\ d = 0

\* A slip: the leading 0 step is left out.
FriStepsWithoutZero(fri_degree) ==
    [i \in 1..(fri_degree \div 4) |-> 4]
        \o (IF fri_degree % 4 # 0 THEN <<fri_degree % 4>> ELSE <<>>)

\* calculate_fri_steps/main.rs:58-70
FriSteps(fri_degree) ==
    <<0>> \o [i \in 1..(fri_degree \div 4) |-> 4]
          \o (IF fri_degree % 4 # 0 THEN <<fri_degree % 4>> ELSE <<>>)

\* calculate_fri_steps/main.rs:56-71, where the + 4 does not overflow.
calculate_fri_step_list(p_n_steps, p_degree_bound) ==
    FriSteps(RoundLog2U32(p_n_steps, p_degree_bound) + 4)

\* The contents of the files.
ParamsJson(fri_step_list, last_layer_degree_bound) ==
    [kind |-> "cpu_air_params", fri_step_list |-> fri_step_list,
     last_layer_degree_bound |-> last_layer_degree_bound]

PublicInputJson(p_n_steps, trace_length, memory_trace_length) ==
    [kind |-> "public_input", n_steps |-> p_n_steps, trace_length |-> trace_length,
     memory_trace_length |-> memory_trace_length]

Garbage == [kind |-> "garbage"]

\* calculate_fri_steps/main.rs:73-96: Some(n) or None for an Err.
read_n_steps_from_public_input(content) ==
    IF content = <<>> \/ content[1].kind # "public_input" THEN <<>>
    ELSE IF content[1].n_steps # <<>> THEN content[1].n_steps
    ELSE IF content[1].trace_length # <<>> THEN content[1].trace_length
    ELSE content[1].memory_trace_length

\* A slip: the params file is written whatever --output says.
OutputPathIgnored(p_args) == p_args.params_file

\* calculate_fri_steps/main.rs:156
OutputPath(p_args) ==
    IF p_args.output # <<>> THEN p_args.output[1] ELSE p_args.params_file

FriArgs(degree_bound, p_n_steps, p_public_input, output, dry_run) ==
    [params_file |-> "params.json", degree_bound |-> degree_bound,
     n_steps |-> p_n_steps, public_input |-> p_public_input, output |-> output,
     dry_run |-> dry_run]

FriFiles(params_json, public_input_json, out_json) ==
    [p \in {"params.json", "public_input.json", "out.json"} |->
        IF p = "params.json" THEN params_json
        ELSE IF p = "public_input.json" THEN public_input_json
        ELSE out_json]

Outputs == {<<>>, <<"out.json">>, <<"params.json">>}

\* Every n_steps and degree_bound, on one set of files.
StepRuns ==
    { [args  |-> FriArgs(d, <<n>>, <<>>, o, dry),
       files |-> FriFiles(<<ParamsJson(<<0, 4, 3>>, 64)>>, <<>>, <<>>)] :
        d \in {<<>>, <<0>>, <<1>>, <<2>>, <<3>>, <<64>>},
        n \in {0, 1, 2, 3, 5, 6, 8, 11, 12, 23, 64, 91, 1024, 8192},
        o \in Outputs, dry \in BOOLEAN }

\* Every set of files, on a few n_steps and degree_bound.
FileRuns ==
    { [args  |-> FriArgs(d, n, i, o, dry),
       files |-> FriFiles(p, pi, out)] :
        d \in {<<>>, <<2>>}, n \in {<<>>, <<8>>},
        i \in {<<>>, <<"public_input.json">>},
        o \in Outputs, dry \in BOOLEAN,
        p \in {<<>>, <<Garbage>>, <<ParamsJson(<<0, 4, 3>>, 64)>>, <<ParamsJson(<<>>, 1)>>},
        pi \in {<<>>, <<Garbage>>, <<PublicInputJson(<<16>>, <<>>, <<>>)>>,
                <<PublicInputJson(<<>>, <<32>>, <<4>>)>>,
                <<PublicInputJson(<<>>, <<>>, <<4>>)>>,
                <<PublicInputJson(<<>>, <<>>, <<>>)>>},
        out \in {<<>>, <<Garbage>>} }

InitFri ==
    /\ CodecInit({Proof(8, 0, 7, <<115>>, BaseSegments, <<>>, <<>>, BaseAnnotations)},
                 "idle")
    /\ ReplayInit({Digest(<<>>, 0)}, {<<>>}, "idle")
    /\ RunsInit
    /\ DeployIdle
    /\ FriInit(StepRuns \cup FileRuns, "parsed")
    /\ VerifyIdle

\* calculate_fri_steps/main.rs:102-103: the ? returns an error for a file that
\* cannot be read or is no CpuAirParams.
ReadParamsFile ==
    /\ fpc = "parsed"
    /\ LET content == files[fri_args.params_file]
       IN  IF content = <<>> \/ content[1].kind # "cpu_air_params"
           THEN /\ fpc' = "error"
                /\ UNCHANGED params
           ELSE /\ params' = content
                /\ fpc' = "params"
    /\ UNCHANGED <<other_than_fri, fri_args, files, files_before, fri_degree_bound,
                   fri_n_steps, new_fri_steps, fri_writes>>

\* calculate_fri_steps/main.rs:106-131
ResolveInputs ==
    /\ fpc = "params"
    /\ fri_degree_bound' =
           IF fri_args.degree_bound # <<>> THEN fri_args.degree_bound[1]
           ELSE params[1].last_layer_degree_bound
    /\ LET read == IF fri_args.public_input = <<>> THEN <<>>
                   ELSE read_n_steps_from_public_input(files[fri_args.public_input[1]])
       IN  IF fri_args.n_steps # <<>>
           THEN /\ fri_n_steps' = fri_args.n_steps[1]
                /\ fpc' = "inputs"
           ELSE IF read # <<>>
           THEN /\ fri_n_steps' = read[1]
                /\ fpc' = "inputs"
           ELSE /\ fpc' = "panicked"
                /\ UNCHANGED fri_n_steps
    /\ UNCHANGED <<other_than_fri, fri_args, files, files_before, params,
                   new_fri_steps, fri_writes>>

\* calculate_fri_steps/main.rs:134.  When the + 4 overflows, a build with
\* overflow checks panics and a build without them wraps to 3.
CalculateFriStepList ==
    /\ fpc = "inputs"
    /\ IF FriDegreeOverflows(fri_n_steps, fri_degree_bound)
       THEN \/ /\ fpc' = "panicked"
               /\ UNCHANGED new_fri_steps
            \/ /\ new_fri_steps' = FriSteps(3)
               /\ fpc' = "calculated"
       ELSE /\ new_fri_steps' = calculate_fri_step_list(fri_n_steps, fri_degree_bound)
            /\ fpc' = "calculated"
    /\ UNCHANGED <<other_than_fri, fri_args, files, files_before, params,
                   fri_degree_bound, fri_n_steps, fri_writes>>

\* calculate_fri_steps/main.rs:146-149
DryRunReturn ==
    /\ fpc = "calculated"
    /\ fri_args.dry_run
    /\ fpc' = "ok"
    /\ UNCHANGED <<other_than_fri, fri_args, files, files_before, params,
                   fri_degree_bound, fri_n_steps, new_fri_steps, fri_writes>>

\* calculate_fri_steps/main.rs:152-162: the file is written, or fs::write
\* fails and the ? returns the error.
WriteParams ==
    /\ fpc = "calculated"
    /\ ~fri_args.dry_run
    /\ params' = <<ParamsJson(new_fri_steps, fri_degree_bound)>>
    /\ \/ /\ files' = [files EXCEPT ![OutputPath(fri_args)] = params']
          /\ fri_writes' = Append(fri_writes, OutputPath(fri_args))
          /\ fpc' = "ok"
       \/ /\ fpc' = "error"
          /\ UNCHANGED <<files, fri_writes>>
    /\ UNCHANGED <<other_than_fri, fri_args, files_before, fri_degree_bound,
                   fri_n_steps, new_fri_steps>>

NextFri ==
    \/ ReadParamsFile
    \/ ResolveInputs
    \/ CalculateFriStepList
    \/ DryRunReturn
    \/ WriteParams

SpecFri == InitFri /\ [][NextFri]_vars

-----------------------------------------------------------------------------
(* verify_proof_split (scripts/verify_proof_split/src/main.rs)             *)

\* The most statements of one kind, and pages, a split proof has here.
MaxStatements == 2

\* serde_json::Value: a string, an array, a number or an object.
JsonString(s) == [kind |-> "string", s |-> s, items |-> <<>>]
JsonArray(items) == [kind |-> "array", s |-> <<>>, items |-> items]
JsonNumber == [kind |-> "number", s |-> <<>>, items |-> <<>>]
JsonObject == [kind |-> "object", s |-> <<>>, items |-> <<>>]

\* format!("{:x}", item) of a non-negative item.
RECURSIVE LowerHex(_)
LowerHex(n) ==
    IF n < 16 THEN <<HexChars[n + 1]>>
    ELSE LowerHex(n \div 16) \o <<HexChars[(n % 16) + 1]>>

\* prepare_input: mod hex_vec, serialize
hex_vec(vec) == JsonArray([i \in 1..Len(vec) |-> JsonString(<<"0", "x">> \o LowerHex(vec[i]))])

\* prepare_input: mod hex, serialize
hex(val) == JsonString(<<"0", "x">> \o LowerHex(val))

\* prepare_input: the document serde writes for a VerifierInput, field by field.
VerifierInputJson(v) ==
    [f \in {"proof_params", "proof", "public_input", "z", "alpha", "memory_page_facts"} |->
        CASE f = "proof_params" -> hex_vec(v.proof_params)
          [] f = "proof"        -> hex_vec(v.proof)
          [] f = "public_input" -> hex_vec(v.public_input)
          [] f = "z"            -> hex(v.z)
          [] f = "alpha"        -> hex(v.alpha)
          [] OTHER              -> JsonObject]

\* U256::from_str: an optional 0x, then at most 2 * WORD_BYTES hex digits.
U256FromStr(s) ==
    LET h == StripPrefix0x(s)
    IN  IF Len(h) > 2 * WORD_BYTES THEN <<>> ELSE ParseDigits(h, 16, 0)

\* input_json.get(field).and_then(|v| v.as_array())
GetArray(doc, field) ==
    IF field \in DOMAIN doc /\ doc[field].kind = "array" THEN <<doc[field].items>> ELSE <<>>

\* input_json.get(field).and_then(|v| v.as_str())
GetStr(doc, field) ==
    IF field \in DOMAIN doc /\ doc[field].kind = "string" THEN <<doc[field].s>> ELSE <<>>

\* .iter().filter_map(|v| v.as_str().map(|s| s.to_string())).collect()
Strings(items) ==
    LET strs == SelectSeq(items, LAMBDA v : v.kind = "string")
    IN  [i \in 1..Len(strs) |-> strs[i].s]

\* .iter().map(|s| U256::from_str(s).map_err(..)).collect::<Result<Vec<_>, _>>()
ParseAll(strs) ==
    IF \A i \in 1..Len(strs) : U256FromStr(strs[i]) # <<>>
    THEN <<[i \in 1..Len(strs) |-> U256FromStr(strs[i])[1]]>>
    ELSE <<>>

\* "Create cairoAuxInput (public input + z + alpha)"
CairoAuxInput(p_public_input, p_z, p_alpha) == Append(Append(p_public_input, p_z), p_alpha)

\* main.rs:206-279: the arguments of verifyProofAndRegister read from the
\* document, or none when a field is missing, of another type or unparseable.
MainProofArgs(doc) ==
    LET proof_params_hex  == GetArray(doc, "proof_params")
        proof_hex         == GetArray(doc, "proof")
        public_input_hex  == GetArray(doc, "public_input")
        z_hex             == GetStr(doc, "z")
        alpha_hex         == GetStr(doc, "alpha")
        task_metadata_hex == GetArray(doc, "task_metadata")
    IN  IF \/ proof_params_hex = <<>> \/ proof_hex = <<>> \/ public_input_hex = <<>>
           \/ z_hex = <<>> \/ alpha_hex = <<>> \/ task_metadata_hex = <<>>
        THEN <<>>
        ELSE LET p_proof_params == ParseAll(Strings(proof_params_hex[1]))
                 p_proof        == ParseAll(Strings(proof_hex[1]))
                 p_public_input == ParseAll(Strings(public_input_hex[1]))
                 p_z            == U256FromStr(z_hex[1])
                 p_alpha        == U256FromStr(alpha_hex[1])
                 task_metadata  == ParseAll(Strings(task_metadata_hex[1]))
             IN  IF \/ p_proof_params = <<>> \/ p_proof = <<>> \/ p_public_input = <<>>
                    \/ p_z = <<>> \/ p_alpha = <<>> \/ task_metadata = <<>>
                 THEN <<>>
                 ELSE <<[proof_params      |-> p_proof_params[1],
                         proof             |-> p_proof[1],
                         task_metadata     |-> task_metadata[1],
                         cairo_aux_input   |-> CairoAuxInput(p_public_input[1], p_z[1],
                                                             p_alpha[1]),
                         cairo_verifier_id |-> 6]>>

\* How a call ends: call.send() fails; the pending transaction fails; it is
\* mined without a receipt; the receipt has no status, status 0 or status 1.
Outcomes == {"send_error", "mined_error", "no_receipt", "status_none", "status_0",
             "status_1"}

\* A slip: every mined receipt counts as verified.
AssertCallAnyReceipt(outcome) ==
    CASE outcome \in {"send_error", "mined_error"} -> "Err"
      [] outcome = "no_receipt" -> "panic"
      [] OTHER -> "Ok"

\* assert_call: Ok for status 1 alone; mined_tx.unwrap() panics without a receipt.
AssertCall(outcome) ==
    CASE outcome \in {"send_error", "mined_error"} -> "Err"
      [] outcome = "no_receipt" -> "panic"
      [] outcome = "status_1" -> "Ok"
      [] OTHER -> "Err"

\* main.rs:285-298: the main proof is Ok for status 1 alone, an error otherwise.
MainProofResult(outcome) == IF outcome = "status_1" THEN "Ok" ELSE "Err"

\* format!("Trace {}", i), format!("FRI statement: {}", i),
\* format!("register continuous page: {}", index), "Main proof"
TraceKey(i) == <<"Trace", i>>
FriName(i) == <<"FRI statement:", i>>
PageName(index) == <<"register continuous page:", index>>
MainProofName == <<"Main proof">>

\* The last line main prints.
AllStepsCompleted == <<"All proof verification steps completed successfully!">>

\* A document of prepare_input: proof_params, proof, public_input, z, alpha.
WrittenByPrepareInput ==
    VerifierInputJson([proof_params |-> <<2, 10>>, proof |-> <<6699, 255>>,
                       public_input |-> <<0, 3, 18>>, z |-> 3, alpha |-> 502])

\* The same document with one field replaced or added.
WithField(doc, field, value) ==
    [f \in DOMAIN doc \cup {field} |-> IF f = field THEN value ELSE doc[f]]

WithTaskMetadata == WithField(WrittenByPrepareInput, "task_metadata", hex_vec(<<1, 0>>))

InputDocuments ==
    { WrittenByPrepareInput,
      WithTaskMetadata,
      \* a field of another type, an item that is no string, digits that do not parse
      WithField(WithTaskMetadata, "z", JsonNumber),
      WithField(WithTaskMetadata, "proof", JsonArray(<<JsonString(<<"0", "x", "5">>), JsonNumber>>)),
      WithField(WithTaskMetadata, "alpha", JsonString(<<"0", "x", "z", "z">>)),
      WithField(WithTaskMetadata, "public_input",
                JsonArray(<<JsonString(<<"0", "x", "1", "0", "0", "0", "0">>)>>)) }

\* INPUT_JSON unset; a file that cannot be read or is no JSON; each document.
InputJsonFiles ==
    { [path |-> <<>>, content |-> <<>>], [path |-> <<"input.json">>, content |-> <<>>] }
    \cup { [path |-> <<"input.json">>, content |-> <<d>>] : d \in InputDocuments }

\* The trace statements under any keys, and any number of FRI statements and pages.
SplitProofs ==
    { [merkle_statements     |-> {TraceKey(i) : i \in K},
       fri_merkle_statements |-> m,
       continuous_pages      |-> k] :
        K \in SUBSET (0..(MaxStatements - 1)), m \in 0..MaxStatements,
        k \in 0..MaxStatements }

InitVerify ==
    /\ CodecInit({Proof(8, 0, 7, <<115>>, BaseSegments, <<>>, <<>>, BaseAnnotations)},
                 "idle")
    /\ ReplayInit({Digest(<<>>, 0)}, {<<>>}, "idle")
    /\ RunsInit
    /\ DeployIdle
    /\ FriIdle
    /\ VerifyInit({[split_proofs |-> s, input_json_file |-> f] :
                       s \in SplitProofs, f \in InputJsonFiles}, "setup")

\* main.rs:55-155: the provider, the wallet, the proofs, the topologies and
\* the addresses; a missing variable panics, an unreadable file is an error.
Setup ==
    /\ vpc = "setup"
    /\ \/ /\ vpc' = "trace"
          /\ verify_printed' = Append(verify_printed, <<"Verifying trace decommitments:">>)
       \/ /\ vpc' \in {"failed", "panicked"}
          /\ UNCHANGED verify_printed
    /\ UNCHANGED <<other_than_verify, split_proofs, input_json_file, vi, sent,
                   input_json, main_call>>

\* assert_call(call, name).await? inside a loop: the call is issued; Ok goes
\* on to the next index, an error returns from main, a panic ends it.
IssueCall(name, outcome) ==
    /\ sent' = Append(sent, [name |-> name, outcome |-> outcome])
    /\ CASE AssertCall(outcome) = "Ok" ->
               /\ verify_printed' = Append(verify_printed, <<"Verified:", name>>)
               /\ vi' = vi + 1
               /\ UNCHANGED vpc
         [] AssertCall(outcome) = "Err" ->
               /\ vpc' = "failed"
               /\ UNCHANGED <<verify_printed, vi>>
         [] OTHER ->
               /\ vpc' = "panicked"
               /\ UNCHANGED <<verify_printed, vi>>

\* main.rs:159-171: one pass of the loop of step 1, or its end.
VerifyTraceDecommitments ==
    /\ vpc = "trace"
    /\ IF vi < Cardinality(split_proofs.merkle_statements)
       THEN IF TraceKey(vi) \notin split_proofs.merkle_statements
            THEN /\ vpc' = "failed"
                 /\ UNCHANGED <<sent, verify_printed, vi>>
            ELSE \E outcome \in Outcomes : IssueCall(TraceKey(vi), outcome)
       ELSE /\ vpc' = "fri"
            /\ vi' = 0
            /\ verify_printed' = Append(verify_printed, <<"Verifying FRI decommitments:">>)
            /\ UNCHANGED sent
    /\ UNCHANGED <<other_than_verify, split_proofs, input_json_file, input_json, main_call>>

\* main.rs:171-177: one pass of the loop of step 2, or its end.
VerifyFriDecommitments ==
    /\ vpc = "fri"
    /\ IF vi < split_proofs.fri_merkle_statements
       THEN \E outcome \in Outcomes : IssueCall(FriName(vi), outcome)
       ELSE /\ vpc' = "pages"
            /\ vi' = 0
            /\ UNCHANGED <<sent, verify_printed>>
    /\ UNCHANGED <<other_than_verify, split_proofs, input_json_file, input_json, main_call>>

\* main.rs:178-189: one pass of the loop of step 3, or its end.
RegisterContinuousPages ==
    /\ vpc = "pages"
    /\ IF vi < split_proofs.continuous_pages
       THEN \E outcome \in Outcomes : IssueCall(PageName(vi), outcome)
       ELSE /\ vpc' = "main"
            /\ vi' = 0
            /\ verify_printed' = Append(verify_printed, <<"Verifying main proof:">>)
            /\ UNCHANGED sent
    /\ UNCHANGED <<other_than_verify, split_proofs, input_json_file, input_json, main_call>>

\* main.rs:198-283: input.json is located, read, parsed and encoded.
LoadInputJson ==
    /\ vpc = "main"
    /\ IF input_json_file.path = <<>>
       THEN /\ vpc' = "panicked"
            /\ UNCHANGED <<input_json, main_call>>
       ELSE IF input_json_file.content = <<>>
       THEN /\ vpc' = "failed"
            /\ UNCHANGED <<input_json, main_call>>
       ELSE /\ input_json' = input_json_file.content
            /\ main_call' = MainProofArgs(input_json_file.content[1])
            /\ vpc' = IF main_call' = <<>> THEN "failed" ELSE "encoded"
    /\ UNCHANGED <<other_than_verify, split_proofs, input_json_file, vi, sent,
                   verify_printed>>

\* main.rs:285-301: the transaction is sent and its receipt awaited.
VerifyMainProof ==
    /\ vpc = "encoded"
    /\ \E outcome \in Outcomes :
          /\ sent' = Append(sent, [name |-> MainProofName, outcome |-> outcome])
          /\ IF MainProofResult(outcome) = "Ok"
             THEN /\ verify_printed' =
                         verify_printed \o <<<<"Verified:", MainProofName>>, AllStepsCompleted>>
                  /\ vpc' = "done"
             ELSE /\ vpc' = "failed"
                  /\ UNCHANGED verify_printed
    /\ UNCHANGED <<other_than_verify, split_proofs, input_json_file, vi, input_json,
                   main_call>>

NextVerify ==
    \/ Setup
    \/ VerifyTraceDecommitments
    \/ VerifyFriDecommitments
    \/ RegisterContinuousPages
    \/ LoadInputJson
    \/ VerifyMainProof

SpecVerify == InitVerify /\ [][NextVerify]_vars

-----------------------------------------------------------------------------
(* compute_interaction_elements_from_hash_and_proof, step by step          *)

\* The replay alone: every public_input_hash, a proof of no, one or two words.
InitReplay ==
    /\ CodecInit({Proof(8, 0, 7, <<115>>, BaseSegments, <<>>, <<>>, BaseAnnotations)},
                 "idle")
    /\ ReplayInit({Digest(<<>>, h) : h \in DigestValues},
                  {<<>>, <<5>>, <<two_256 - 1, 3>>}, "begin")
    /\ ToolsIdle

\* main.rs:228-256
MixTraceCommitment ==
    /\ rpc = "begin"
    /\ IF Len(replay_proof) > 0
       THEN /\ \E value \in DigestValues :
                   digest' = Digest(MixInput(digest, replay_proof[1]), value)
            /\ counter' = 0
       ELSE UNCHANGED <<digest, counter>>
    /\ rpc' = "for"
    /\ UNCHANGED <<codec_vars, tool_vars, public_input_hash, replay_proof,
                   interaction_elements, field_element, iteration>>

\* main.rs:261-262: a pass of the loop begins.
ReadFieldElement ==
    /\ rpc = "for"
    /\ iteration < 2
    /\ field_element' = digest.v
    /\ rpc' = "while"
    /\ UNCHANGED <<codec_vars, tool_vars, public_input_hash, replay_proof, digest, counter,
                   interaction_elements, iteration>>

\* main.rs:265-280: one pass of the while loop.
RetryFieldElement ==
    /\ rpc = "while"
    /\ Retry(field_element)
    /\ counter < MaxCounter
    /\ \E value \in DigestValues :
           /\ field_element' = value
           /\ digest' = Digest(CounterHashInput(digest, counter), value)
    /\ counter' = counter + 1
    /\ UNCHANGED <<codec_vars, tool_vars, public_input_hash, replay_proof,
                   interaction_elements, iteration, rpc>>

\* main.rs:282-295: the challenge is pushed, the digest and counter advance.
AcceptFieldElement ==
    /\ rpc = "while"
    /\ ~Retry(field_element)
    /\ interaction_elements' =
           Append(interaction_elements, FromMontgomery(field_element))
    /\ \E value \in DigestValues :
           LET next == Advance(digest, counter, value)
           IN  /\ digest' = next.digest
               /\ counter' = next.counter
    /\ iteration' = iteration + 1
    /\ rpc' = "for"
    /\ UNCHANGED <<codec_vars, tool_vars, public_input_hash, replay_proof, field_element>>

\* main.rs:297-300
ReturnInteractionElements ==
    /\ rpc = "for"
    /\ iteration = 2
    /\ rpc' = "returned"
    /\ UNCHANGED <<codec_vars, tool_vars, public_input_hash, replay_proof, digest, counter,
                   interaction_elements, field_element, iteration>>

NextReplay ==
    \/ MixTraceCommitment
    \/ ReadFieldElement
    \/ RetryFieldElement
    \/ AcceptFieldElement
    \/ ReturnInteractionElements

SpecReplay == InitReplay /\ [][NextReplay]_vars

-----------------------------------------------------------------------------
(* What the claims are stated with                                         *)

Memory   == annotated_proof.public_input.public_memory
Cells    == ParsedCells(Memory)
PageIds  == {Memory[i].page : i \in 1..Len(Memory)}
CellsOf(p) == {i \in 1..Len(Memory) : Memory[i].page = p}

\* The prefix has been built (it has at least eight words once it is).
PrefixBuilt == public_input_without_products # <<>>
FactsBuilt  == pc \notin {"start", "converted"} /\ CellsParse(Memory)

\* The ten names in the order the specification gives them.
CanonicalNames == <<"program", "execution", "output", "pedersen", "range_check",
                    "ecdsa", "bitwise", "ec_op", "keccak", "poseidon">>

PresentSegments ==
    {i \in 1..10 : CanonicalNames[i] \in DOMAIN annotated_proof.public_input.memory_segments}

\* Where the padding pair starts: after five words and the segment pairs.
PaddingAt == 5 + 2 * Cardinality(PresentSegments) + 1

\* Where the block of page p starts: after the page count and the blocks of
\* the smaller pages (two words for page 0, three for any other).
BlockAt(p) ==
    PaddingAt + 3 + (IF 0 \in PageIds /\ 0 < p THEN 2 ELSE 0)
              + 3 * Cardinality({q \in PageIds : 0 < q /\ q < p})

\* Position of page p among the continuous pages.
ContinuousRank(p) == Cardinality({q \in PageIds : 0 < q /\ q <= p})

\* The product of (z - (address + alpha * value)) over the cells of page p
\* among the first n cells, as a residue in [0, K_MODULUS).
RECURSIVE ProductOf(_, _)
ProductOf(p, n) ==
    IF n = 0 THEN 1
    ELSE IF Cells[n].page # p THEN ProductOf(p, n - 1)
    ELSE (ProductOf(p, n - 1)
          * ((z - (Cells[n].address + alpha * Cells[n].value)) % K_MODULUS)) % K_MODULUS

\* The bytes read as a big-endian integer, most significant byte first.
RECURSIVE BigEndian(_, _)
BigEndian(bytes, acc) ==
    IF bytes = <<>> THEN acc ELSE BigEndian(Tail(bytes), 256 * acc + Head(bytes))

-----------------------------------------------------------------------------
\* C1: the product-free public-input vector starts with five words: the
\* verifier-friendly commitment-layer count (0 when the field is absent),
\* log2(n_steps), rc_min, rc_max, and the layout's bytes read as a big-endian
\* integer.
C1_HeaderWords ==
    PrefixBuilt =>
        LET pi     == public_input_without_products
            inp    == annotated_proof.public_input
            layers == annotated_proof.proof_parameters.n_verifier_friendly_commitment_layers
        IN  /\ Len(pi) >= 5
            /\ pi[1] = Word(IF layers = <<>> THEN 0 ELSE layers[1])
            /\ \E l \in 0..12 :
                  /\ pi[2] = Word(l)
                  /\ (inp.n_steps >= 1 => (2^l <= inp.n_steps /\ inp.n_steps < 2^(l + 1)))
            /\ pi[3] = Word(inp.rc_min)
            /\ pi[4] = Word(inp.rc_max)
            /\ pi[5] = Word(BigEndian(inp.layout, 0))

C1_Witness ==
    /\ PrefixBuilt
    /\ annotated_proof.proof_parameters.n_verifier_friendly_commitment_layers = <<>>
    /\ annotated_proof.public_input.n_steps = 1024
    /\ annotated_proof.public_input.rc_min = -1
    /\ annotated_proof.public_input.layout = <<115, 109>>
    /\ public_input_without_products[5] = Word(29549)

\* C2: for every set of segment names present, the vector holds the
\* (begin_addr, stop_ptr) pair of each present segment among the ten fixed
\* names, in the fixed order; absent segments contribute nothing, other names
\* are ignored, and the pairs take exactly 2 x (present known segments) words.
C2_SegmentPairs ==
    PrefixBuilt =>
        LET pi   == public_input_without_products
            segs == annotated_proof.public_input.memory_segments
            out  == serialize_segments(annotated_proof.public_input)
        IN  /\ Len(out) = 2 * Cardinality(PresentSegments)
            /\ \A i \in PresentSegments :
                  LET rank == Cardinality({j \in PresentSegments : j <= i})
                  IN  /\ pi[5 + 2 * rank - 1] = Word(segs[CanonicalNames[i]].begin_addr)
                      /\ pi[5 + 2 * rank]     = Word(segs[CanonicalNames[i]].stop_ptr)
            /\ Len(pi) = 5 + 2 * Cardinality(PresentSegments) + 3
                           + (IF 0 \in PageIds THEN 2 ELSE 0)
                           + 3 * Cardinality(PageIds \ {0})

C2_Witness ==
    /\ PrefixBuilt
    /\ DOMAIN annotated_proof.public_input.memory_segments
           = {"poseidon", "builtin_x", "program", "ecdsa"}
    /\ SubSeq(public_input_without_products, 6, 11)
           = <<Word(101), Word(201), Word(106), Word(206), Word(110), Word(210)>>

\* C3: right after the segment pairs comes one padding pair, the (address,
\* value) of the first cell of public_memory whatever its page, and the next
\* word is the page count.
C3_PaddingThenPageCount ==
    (PrefixBuilt /\ Memory # <<>>) =>
        LET pi == public_input_without_products
        IN  /\ pi[PaddingAt]     = Word(ParseAddress(Memory[1])[1])
            /\ pi[PaddingAt + 1] = Word(ParseValue(Memory[1])[1])
            /\ pi[PaddingAt + 2] = Word(Cardinality(PageIds))

C3_Witness ==
    /\ PrefixBuilt
    /\ Len(Memory) = 3
    /\ Memory[1] = Cell(2, <<"1", "2">>, <<"0", "x", "5">>)
    /\ Memory[2].page = 0
    /\ Memory[3].page = 1
    /\ SubSeq(public_input_without_products, PaddingAt, PaddingAt + 2)
           = <<Word(12), Word(5), Word(3)>>

C5_PrefixThenProducts ==
    pc \in {"assembled", "done"} =>
        LET pre   == public_input_without_products
            final == IF pc = "done" THEN verifier_input[1].public_input ELSE public_input
        IN  /\ Len(final) = Len(pre) + Cardinality(PageIds)
            /\ SubSeq(final, 1, Len(pre)) = pre
            /\ \A p \in PageIds :
                  final[Len(pre) + Cardinality({q \in PageIds : q <= p})]
                      = Word(ProductOf(p, Len(Memory)))
            /\ Len(pre) = PaddingAt + 2 + (IF 0 \in PageIds THEN 2 ELSE 0)
                            + 3 * Cardinality(PageIds \ {0})

C5_Witness ==
    /\ pc = "done"
    /\ PageIds = {0, 1, 2}
    /\ Memory[1].page = 2
    /\ Len(verifier_input[1].public_input) = Len(public_input_without_products) + 3
    /\ ProductOf(0, Len(Memory)) # ProductOf(2, Len(Memory))

\* C6: for non-negative z, alpha, addresses and values, the product folded
\* from 1 over a page's cells in encounter order is the product of
\* (z - (address + alpha * value)) over those cells reduced modulo the prime,
\* and every intermediate and final product lies in [0, prime); cells (1,5),
\* (2,7) with z = 3, alpha = 2 give (3-(1+2*5)) * (3-(2+2*7)) mod prime.
C6_ProductInField ==
    pc \in {"products", "assembled", "done"} =>
        /\ DOMAIN page_prods = {Memory[i].page : i \in 1..(cell_idx - 1)}
        /\ \A p \in DOMAIN page_prods :
              /\ page_prods[p] \in 0..(K_MODULUS - 1)
              /\ page_prods[p] = ProductOf(p, cell_idx - 1)

C6_Witness ==
    /\ pc = "done"
    /\ Memory = << Cell(0, <<"1">>, <<"0", "x", "5">>), Cell(0, <<"2">>, <<"0", "x", "7">>) >>
    /\ z = 3
    /\ alpha = 2
    /\ page_prods[0] = ((3 - (1 + 2 * 5)) * (3 - (2 + 2 * 7))) % K_MODULUS
    /\ page_prods[0] = 104

\* C7: for every permutation of public_memory, hence of every page's cells,
\* each page's final permutation product is the same.
C7_ProductOrderIndependent ==
    pc = "done" =>
        \A perm \in Permutations(1..Len(Memory)) :
            FoldPageProds(<<>>, [i \in 1..Len(Memory) |-> Cells[perm[i]]], 1, z, alpha)
                = page_prods

C7_Witness ==
    /\ pc = "done"
    /\ Len(Memory) = 3
    /\ Memory[1].page = 1 /\ Memory[2].page = 1 /\ Memory[3].page = 1
    /\ Cardinality({Cells[i].address : i \in 1..3}) = 3
    /\ page_prods[1] # 0

\* C8: when public_memory has a cell of page 0, regular_page.memory_pairs is
\* the interleaved address, value, address, value, ... of the page-0 cells in
\* public_memory order, the cells of other pages left out, and the page-0
\* hash in the vector is the hash of that sequence as 32-byte words.
C8_RegularPagePairs ==
    (FactsBuilt /\ 0 \in PageIds) =>
        LET reg == memory_page_facts.regular_page
        IN  /\ Len(reg) = 1
            /\ Len(reg[1].memory_pairs) = 2 * Cardinality(CellsOf(0))
            /\ \A i \in CellsOf(0) :
                  LET rank == Cardinality({j \in CellsOf(0) : j <= i})
                  IN  /\ reg[1].memory_pairs[2 * rank - 1] = Cells[i].address
                      /\ reg[1].memory_pairs[2 * rank]     = Cells[i].value
            /\ PrefixBuilt =>
                  public_input_without_products[BlockAt(0) + 1]
                      = keccak256([k \in 1..Len(reg[1].memory_pairs) |->
                                      Word(reg[1].memory_pairs[k])])

C8_Witness ==
    /\ PrefixBuilt
    /\ Len(Memory) = 3
    /\ Memory[1].page = 0 /\ Memory[2].page = 1 /\ Memory[3].page = 0
    /\ memory_page_facts.regular_page[1].memory_pairs = <<2, 7, 1, 5>>
    /\ public_input_without_products[BlockAt(0) + 1]
           = keccak256(<<Word(2), Word(7), Word(1), Word(5)>>)

\* C9 as stated: every page above 0 gives a continuous page that starts at
\* the page's minimum address, has max-min+1 values, holds each cell's value
\* at offset address-min and zero where no cell has the address; continuous
\* pages are listed in ascending page order.
C9_EachCellValue ==
    FactsBuilt =>
        /\ Len(memory_page_facts.continuous_pages) = Cardinality(PageIds \ {0})
        /\ \A p \in PageIds \ {0} :
              LET page  == memory_page_facts.continuous_pages[ContinuousRank(p)]
                  addrs == {Cells[i].address : i \in CellsOf(p)}
              IN  /\ page.start_addr = Min(addrs)
                  /\ Len(page.values) = Max(addrs) - Min(addrs) + 1
                  /\ \A i \in CellsOf(p) :
                        page.values[Cells[i].address - Min(addrs) + 1] = Cells[i].value
                  /\ \A a \in Min(addrs)..Max(addrs) :
                        a \notin addrs => page.values[a - Min(addrs) + 1] = 0

\* C9, amended: as stated, except that an offset holds the value of the last
\* cell of the page with that address (each cell's value when no address of
\* the page repeats).
C9_LastCellValue ==
    FactsBuilt =>
        /\ Len(memory_page_facts.continuous_pages) = Cardinality(PageIds \ {0})
        /\ \A p \in PageIds \ {0} :
              LET page  == memory_page_facts.continuous_pages[ContinuousRank(p)]
                  addrs == {Cells[i].address : i \in CellsOf(p)}
              IN  /\ page.start_addr = Min(addrs)
                  /\ Len(page.values) = Max(addrs) - Min(addrs) + 1
                  /\ \A a \in Min(addrs)..Max(addrs) :
                        page.values[a - Min(addrs) + 1] =
                            IF a \in addrs
                            THEN Cells[Max({i \in CellsOf(p) : Cells[i].address = a})].value
                            ELSE 0

C9_Witness ==
    /\ FactsBuilt
    /\ Memory = << Cell(2, <<"1", "2">>, <<"0", "x", "5">>),
                   Cell(1, <<"1", "2">>, <<"7">>),
                   Cell(1, <<"1", "0">>, <<"0", "x", "5">>) >>
    /\ memory_page_facts.continuous_pages
           = << [start_addr |-> 10, values |-> <<5, 0, 7>>],
                [start_addr |-> 12, values |-> <<5>>] >>

\* C10: for every continuous page, the page hash in the vector is the hash of
\* the values array of the same page in memory_page_facts: the values in
\* ascending address order over the dense range, missing addresses as zero.
C10_HashOfDenseValues ==
    PrefixBuilt =>
        \A p \in PageIds \ {0} :
            LET values == memory_page_facts.continuous_pages[ContinuousRank(p)].values
            IN  public_input_without_products[BlockAt(p) + 2]
                    = keccak256([k \in 1..Len(values) |-> Word(values[k])])

\* The hash the vector holds for page p of the run's own public memory.
HashWordOf(p) ==
    public_input_without_products[BlockAt(p) + (IF p = 0 THEN 1 ELSE 2)]

\* The hash prepare_public_input_without_products computes for page p of
\* another public memory, given as parsed cells.
PageHashOfCells(cells, p) ==
    LET pages == GroupByPage(cells)
        facts == [regular_page     |-> RegularPage(cells),
                  continuous_pages |-> ContinuousPages(cells)]
    IN  PageHash(Cardinality({q \in DOMAIN pages : q < p}), p,
                 Interleave(pages[p]), facts)

PairsOf(cells, p) ==
    LET page == SelectSeq(cells, LAMBDA c : c.page = p)
    IN  [k \in 1..Len(page) |-> <<page[k].address, page[k].value>>]

\* Public memories next to cells: one cell replaced, one cell dropped, two
\* neighbouring cells swapped.
Neighbours(cells) ==
    LET n == Len(cells)
    IN  {[cells EXCEPT ![i] = [page |-> q, address |-> a, value |-> v]] :
            i \in 1..n, q \in {0, 1}, a \in {1, 2, 10}, v \in {5, 7}}
        \cup {[k \in 1..(n - 1) |-> IF k < i THEN cells[k] ELSE cells[k + 1]] : i \in 1..n}
        \cup {[k \in 1..n |-> IF k = i THEN cells[i + 1]
                              ELSE IF k = i + 1 THEN cells[i] ELSE cells[k]] :
                 i \in 1..(n - 1)}

\* All addresses of page p moved by d.
Shifted(cells, p, d) ==
    [k \in 1..Len(cells) |->
        IF cells[k].page = p
        THEN [cells[k] EXCEPT !.address = cells[k].address + d] ELSE cells[k]]

\* C11: with an injective hash, the regular-page hash of two inputs differs
\* exactly when their page-0 (address, value) sequences differ; the hash of a
\* continuous page is unchanged when all its addresses are shifted by the
\* same offset, and changes when any value of the page changes.
C11_HashSensitivity ==
    pc = "without_products" =>
        /\ 0 \in PageIds =>
              \A other \in Neighbours(Cells) :
                  (\E k \in 1..Len(other) : other[k].page = 0) =>
                      ((PageHashOfCells(other, 0) # HashWordOf(0))
                          <=> (PairsOf(other, 0) # PairsOf(Cells, 0)))
        /\ \A p \in PageIds \ {0} :
              /\ \A d \in {1, 7, 100} :
                    PageHashOfCells(Shifted(Cells, p, d), p) = HashWordOf(p)
              /\ \A i \in CellsOf(p) :
                    \A v \in {0, 5, 7, 16} \ {Cells[i].value} :
                        PageHashOfCells([Cells EXCEPT ![i].value = v], p) # HashWordOf(p)

C11_Witness ==
    /\ pc = "without_products"
    /\ Len(Memory) = 3
    /\ Memory[1].page = 0 /\ Memory[2].page = 1 /\ Memory[3].page = 1
    /\ Cells[2].address = 12 /\ Cells[3].address = 10
    /\ PageHashOfCells(Shifted(Cells, 1, 7), 1) = HashWordOf(1)
    /\ PageHashOfCells([Cells EXCEPT ![1].address = 2], 0) # HashWordOf(0)

-----------------------------------------------------------------------------
(* The transcript replay (checked under SpecReplay)                        *)

\* The first digest of the chain a digest was hashed from.
RECURSIVE RootDigest(_)
RootDigest(d) ==
    IF d.pre # <<>> /\ d.pre[1].tag = "keccak256" THEN RootDigest(d.pre[1]) ELSE d

\* The nearest digest below 31 x modulus that d was hashed from, if any.
RECURSIVE AcceptedBefore(_)
AcceptedBefore(d) ==
    IF d.pre = <<>> \/ d.pre[1].tag # "keccak256" THEN <<>>
    ELSE IF d.pre[1].v < 31 * K_MODULUS THEN <<d.pre[1]>>
    ELSE AcceptedBefore(d.pre[1])

\* The digest has been hashed from another digest and a counter.
AfterCounterHash ==
    /\ Len(digest.pre) = 2
    /\ digest.pre[1].tag = "keccak256"
    /\ digest.pre[2].tag = "int"

\* C12: with a proof of at least one word, the digest every challenge comes
\* from starts at hash(digest_plus_one || proof[0]), where digest_plus_one is
\* the public-input hash plus one, 2^256 - 1 wrapping to 0; no challenge has
\* been derived when the mix is done, and the counter is 0 after it.
C12_MixBeforeChallenges ==
    (rpc # "begin" /\ Len(replay_proof) > 0) =>
        LET h == public_input_hash.v
            digest_plus_one == IF h = two_256 - 1 THEN 0 ELSE h + 1
        IN  /\ RootDigest(digest).tag = "keccak256"
            /\ RootDigest(digest).pre = <<Word(digest_plus_one), Word(replay_proof[1])>>
            /\ (rpc = "for" /\ iteration = 0) =>
                   /\ digest = RootDigest(digest)
                   /\ counter = 0
                   /\ interaction_elements = <<>>

C12_Witness ==
    /\ rpc = "for"
    /\ iteration = 0
    /\ public_input_hash.v = two_256 - 1
    /\ replay_proof = <<two_256 - 1, 3>>
    /\ digest.pre = <<Word(0), Word(two_256 - 1)>>

\* C13: a challenge is pushed only for a digest below 31 x modulus; while
\* the candidate is at or above it nothing is pushed; the challenge is the
\* accepted integer out of Montgomery form, so it is in [0, modulus).
C13_ChallengeBelowBound ==
    /\ Len(interaction_elements) = iteration
    /\ rpc = "while" => field_element = digest.v
    /\ (rpc \in {"for", "returned"} /\ iteration >= 1) =>
           /\ AfterCounterHash
           /\ LET accepted  == digest.pre[1].v
                  challenge == interaction_elements[iteration]
              IN  /\ accepted < 31 * K_MODULUS
                  /\ challenge = (accepted * k_montgomery_r_inv) % K_MODULUS
                  /\ (challenge * two_256) % K_MODULUS = accepted % K_MODULUS
                  /\ challenge \in 0..(K_MODULUS - 1)

C13_Witness ==
    /\ rpc = "returned"
    /\ counter = 4
    /\ digest.pre[1].v = 31 * K_MODULUS - 1
    /\ digest.pre[1].pre[1].v = two_256 - 1
    /\ interaction_elements[2] # 0

\* C14: every counter-hash step hashes the digest with the value the
\* counter had before the step, so the counter is one more than the hashed
\* value after it (and the first step after the mix hashes 0).
C14_CounterBeforeIncrement ==
    (rpc # "begin" /\ AfterCounterHash) => digest.pre[2] = Word(counter - 1)

\* C15: the digest after a challenge is one counter-hash step from the
\* digest the challenge was taken from, and the digest alpha is taken from
\* is hashed from, and different from, the digest z was taken from.
C15_AdvanceBetweenChallenges ==
    (rpc \in {"for", "returned"} /\ iteration >= 1) =>
        /\ AfterCounterHash
        /\ interaction_elements[iteration] =
               (digest.pre[1].v * k_montgomery_r_inv) % K_MODULUS
        /\ iteration = 2 =>
               LET alpha_digest == digest.pre[1]
                   z_digest     == AcceptedBefore(alpha_digest)
               IN  /\ z_digest # <<>>
                   /\ z_digest[1] # alpha_digest
                   /\ interaction_elements[1] =
                          (z_digest[1].v * k_montgomery_r_inv) % K_MODULUS

C15_Witness ==
    /\ rpc = "returned"
    /\ counter = 2
    /\ replay_proof = <<5>>
    /\ AcceptedBefore(digest.pre[1]) = <<digest.pre[1].pre[1]>>
    /\ interaction_elements[1] # interaction_elements[2]

-----------------------------------------------------------------------------
(* The challenges and the proof words of the document                      *)

\* The document prepare_verifier_input returned.
Returned == pc = "done" /\ Len(verifier_input) = 1

\* C16: a document is produced only after the replay has been run from the
\* hash of the product-free public input, and its z and alpha are the two
\* replayed challenges.
C16_ReplayedAndCompared ==
    Returned =>
        /\ rpc = "returned"
        /\ public_input_hash.pre = public_input_without_products
        /\ Len(interaction_elements) = 2
        /\ verifier_input[1].z = interaction_elements[1]
        /\ verifier_input[1].alpha = interaction_elements[2]

\* C17: z and alpha of every document are in [0, modulus).
C17_ChallengesInField ==
    Returned =>
        /\ verifier_input[1].z \in 0..(K_MODULUS - 1)
        /\ verifier_input[1].alpha \in 0..(K_MODULUS - 1)

\* C18: every document has a field task_metadata, and it is the list [0]
\* (the program takes no fact-topology file).
C18_TaskMetadataZero ==
    Returned =>
        /\ "task_metadata" \in DOMAIN verifier_input[1]
        /\ verifier_input[1].task_metadata = <<0>>

\* proof_hex without its prefix.
HexClean == StripPrefix0x(annotated_proof.proof_hex)

\* C19: for a proof_hex of odd length (after the prefix is stripped) no proof
\* word list and no document is produced.
C19_OddHexRejected ==
    Len(HexClean) % 2 = 1 => (pc \in {"start", "panicked"} /\ proof = <<>> /\ verifier_input = <<>>)

\* Word w as WORD_BYTES big-endian bytes.
WordBytes(w) == [j \in 1..WORD_BYTES |-> (w \div (256 ^ (WORD_BYTES - j))) % 256]

RECURSIVE ConcatWords(_)
ConcatWords(words) ==
    IF words = <<>> THEN <<>> ELSE WordBytes(Head(words)) \o ConcatWords(Tail(words))

\* C20: for a proof_hex of even length, decoding to n bytes, the proof is
\* ceil(n / 32) words; word i is the big-endian integer of bytes 32i..32i+31
\* of the bytes followed by zeros; every word is in [0, 2^256) and the bytes
\* are a prefix of the concatenated words.
C20_ProofWords ==
    (pc # "start" /\ Len(HexClean) % 2 = 0) =>
        LET bytes == decode_hex(annotated_proof.proof_hex)
            n     == Len(HexClean) \div 2
            ByteAt(k) == IF k <= n THEN bytes[k] ELSE 0
        IN  /\ Len(bytes) = n
            /\ Len(proof) = (n + WORD_BYTES - 1) \div WORD_BYTES
            /\ n = 0 => proof = <<>>
            /\ \A i \in 1..Len(proof) :
                   /\ proof[i] \in 0..(two_256 - 1)
                   /\ proof[i] =
                          BigEndian([j \in 1..WORD_BYTES |->
                                        ByteAt(WORD_BYTES * (i - 1) + j)], 0)
            /\ SubSeq(ConcatWords(proof), 1, n) = bytes
            /\ \A k \in (n + 1)..(WORD_BYTES * Len(proof)) : ConcatWords(proof)[k] = 0

C20_Witness ==
    /\ pc = "converted"
    /\ annotated_proof.proof_hex = <<"0", "x", "f", "f", "0", "0", "f", "f">>
    /\ proof = <<65280, 65280>>

-----------------------------------------------------------------------------
(* The output file                                                         *)

\* A character of proof_hex (after the prefix) is no hex digit.
NonHexProof == \E i \in 1..Len(HexClean) : ~IsDigit(HexClean[i], 16)

\* C21: a non-hex character in proof_hex or in a memory value, or a
\* non-numeric address, aborts the run before the output file is written;
\* the file is written only with the complete document, after every stage.
C21_MalformedNeverWritten ==
    /\ (NonHexProof \/ ~CellsParse(Memory)) => output_file = <<>>
    /\ output_file # <<>> => (pc = "written" /\ output_file = verifier_input)

-----------------------------------------------------------------------------
(* Two runs (checked under SpecRuns)                                       *)

\* C22: two calls on the same annotated proof return the same proof_params,
\* proof, public_input, z, alpha and memory_page_facts (or both panic),
\* whatever the order in which the hash maps yield their keys.
C22_Deterministic ==
    /\ (first_run # <<>> /\ second_run # <<>>) => first_run = second_run
    /\ (first_run # <<>> /\ ~first_run[1].panicked) =>
           LET document == first_run[1].document[1]
               facts    == prepare_memory_page_facts(annotated_proof)
           IN  /\ document.memory_page_facts = facts
               /\ document.public_input =
                      prepare_public_input_without_products(annotated_proof, facts)
                          \o PageProducts(FoldPageProds(<<>>, Cells, 1, document.z,
                                                        document.alpha))

C22_Witness ==
    /\ first_run # <<>>
    /\ second_run # <<>>
    /\ ~first_run[1].panicked
    /\ Len(first_run[1].document[1].memory_page_facts.continuous_pages) = 2
    /\ first_run[1].document[1].memory_page_facts.regular_page # <<>>
    /\ annotated_proof.public_input.public_memory[1].page = 2

-----------------------------------------------------------------------------
(* deploy (checked under SpecDeploy)                                       *)

\* The arguments contain --broadcast.
Broadcasts(args) == \E i \in 1..Len(args) : args[i] = "--broadcast"

\* C23: forge is started with --broadcast if and only if the subcommand was
\* given without --dry, for Sepolia and for BaseSepolia; the command that is
\* about to be run has the flag under the same condition.
C23_BroadcastUnlessDry ==
    /\ \A i \in 1..Len(forge_runs) : Broadcasts(forge_runs[i]) <=> ~command.dry
    /\ dpc \in {"ready", "exited", "ok"} => (Broadcasts(cmd) <=> ~command.dry)
    /\ Len(forge_runs) <= 1

C23_Witness ==
    /\ dpc = "ok"
    /\ command = [network |-> "BaseSepolia", dry |-> TRUE]
    /\ forge_runs = <<ScriptArgs("url_b")>>

-----------------------------------------------------------------------------
(* calculate_fri_steps (checked under SpecFri)                             *)

\* The path a run that is not dry is to write.
WriteTarget ==
    IF fri_args.output # <<>> THEN fri_args.output[1] ELSE fri_args.params_file

\* Every file but the one at path is as it was when main began.
OthersUntouched(path) ==
    \A p \in DOMAIN files : p # path => files[p] = files_before[p]

\* C24 as stated: a dry run writes no file; a run that is not dry (and
\* completes) writes exactly one file, the --output path when given, leaving
\* the params file unchanged, and the params file otherwise.
C24_OneFileWritten ==
    /\ fri_args.dry_run => (fri_writes = <<>> /\ files = files_before)
    /\ (fpc = "ok" /\ ~fri_args.dry_run) =>
           /\ fri_writes = <<WriteTarget>>
           /\ OthersUntouched(WriteTarget)
           /\ fri_args.output # <<>> =>
                  files[fri_args.params_file] = files_before[fri_args.params_file]

\* C24, amended: a dry run, and a run that aborts, write no file; a run that
\* is not dry and completes writes exactly one file, the --output path when
\* given and the params file otherwise, with the updated parameters; every
\* other file is unchanged, so the params file is unchanged under --output
\* unless --output names the params file itself.
C24_OneFileWrittenUnlessAliased ==
    /\ (fri_args.dry_run \/ fpc # "ok") => (fri_writes = <<>> /\ files = files_before)
    /\ (fpc = "ok" /\ ~fri_args.dry_run) =>
           /\ fri_writes = <<WriteTarget>>
           /\ OthersUntouched(WriteTarget)
           /\ files[WriteTarget] = <<ParamsJson(new_fri_steps, fri_degree_bound)>>
           /\ (fri_args.output # <<>> /\ fri_args.output[1] # fri_args.params_file) =>
                  files[fri_args.params_file] = files_before[fri_args.params_file]

C24_Witness ==
    /\ fpc = "ok"
    /\ ~fri_args.dry_run
    /\ fri_args.output = <<"params.json">>
    /\ fri_writes = <<"params.json">>
    /\ files["params.json"] # files_before["params.json"]

RECURSIVE SumOf(_)
SumOf(steps) == IF steps = <<>> THEN 0 ELSE Head(steps) + SumOf(Tail(steps))

\* The integer nearest to log2(n / d), 0 when that is negative.
NearestLog2(n, d) ==
    CHOOSE k \in 0..14 :
        /\ n * n < (2 ^ (2 * k + 1)) * d * d
        /\ k >= 1 => n * n > (2 ^ (2 * k - 1)) * d * d

\* n / d = 2^k, for k of either sign.
IsPowerOfTwoRatio(n, d, k) ==
    IF k >= 0 THEN n = d * (2 ^ k) ELSE d = n * (2 ^ (0 - k))

\* steps is 0, then floor(d / 4) fours, then d mod 4 when that is not 0.
HasShape(steps, d) ==
    /\ Len(steps) = 1 + (d \div 4) + (IF d % 4 # 0 THEN 1 ELSE 0)
    /\ steps[1] = 0
    /\ \A i \in 2..(1 + (d \div 4)) : steps[i] = 4
    /\ d % 4 # 0 => steps[Len(steps)] = d % 4
    /\ \A i \in 2..Len(steps) : steps[i] \in 1..4
    /\ SumOf(steps) = d

\* The list has been calculated from n_steps >= 1 and degree_bound >= 1.
Calculated == fpc \in {"calculated", "ok"} /\ fri_n_steps >= 1 /\ fri_degree_bound >= 1

\* C30 as stated: the list has the shape of d = round(log2(n / db)) + 4 (the
\* logarithm clamped at 0), and sums to k + 4 whenever n / db = 2^k.
C30_FriStepList ==
    Calculated =>
        /\ HasShape(new_fri_steps, NearestLog2(fri_n_steps, fri_degree_bound) + 4)
        /\ \A k \in (0 - 14)..14 :
               IsPowerOfTwoRatio(fri_n_steps, fri_degree_bound, k) =>
                   SumOf(new_fri_steps) = k + 4

\* C30, amended: the same shape; the sum is k + 4 when n / db = 2^k with
\* k >= 0, and 4 when n / db = 2^k with k < 0 (the logarithm is clamped).
C30_FriStepListClamped ==
    Calculated =>
        /\ HasShape(new_fri_steps, NearestLog2(fri_n_steps, fri_degree_bound) + 4)
        /\ \A k \in (0 - 14)..14 :
               IsPowerOfTwoRatio(fri_n_steps, fri_degree_bound, k) =>
                   SumOf(new_fri_steps) = (IF k >= 0 THEN k + 4 ELSE 4)

C30_Witness ==
    /\ fpc = "calculated"
    /\ fri_n_steps = 1
    /\ fri_degree_bound = 64
    /\ new_fri_steps = <<0, 4>>

Emitted == pc \in {"assembled", "done", "written", "write_failed"}
EmittedPublicInput ==
    IF pc = "assembled" THEN public_input ELSE verifier_input[1].public_input

\* C26: in every emitted public_input the page-count word, the number of page
\* blocks after it and the number of appended products all equal the number
\* of distinct page ids of the public memory cells; a page without cells is
\* in neither memory_page_facts nor the products.
C26_OnePerOccurringPage ==
    Emitted =>
        LET final == EmittedPublicInput
            pre   == public_input_without_products
            n     == Cardinality(PageIds)
        IN  /\ final[PaddingAt + 2] = Word(n)
            /\ Len(pre) = PaddingAt + 2 + (IF 0 \in PageIds THEN 2 ELSE 0)
                            + 3 * Cardinality(PageIds \ {0})
            /\ Len(final) = Len(pre) + n
            /\ DOMAIN page_prods = PageIds
            /\ (memory_page_facts.regular_page # <<>>) <=> (0 \in PageIds)
            /\ Len(memory_page_facts.continuous_pages) = Cardinality(PageIds \ {0})

C26_Witness ==
    /\ pc = "written"
    /\ Len(Memory) = 3
    /\ PageIds = {1, 2}
    /\ output_file[1].public_input[PaddingAt + 2] = Word(2)
    /\ Len(output_file[1].public_input) = PaddingAt + 2 + 6 + 2
    /\ output_file[1].memory_page_facts.regular_page = <<>>

\* The annotation lines and the positions (line, match) of their matches.
Annotations == annotated_proof.annotations
Matches ==
    UNION {{<<l, i>> : i \in 1..Len(Annotations[l])} : l \in 1..Len(Annotations)}

\* The hex digits read as a number, the last digit being the units.
RECURSIVE FromHexDigits(_)
FromHexDigits(s) ==
    IF s = <<>> THEN 0
    ELSE 16 * FromHexDigits(SubSeq(s, 1, Len(s) - 1)) + DigitValue(s[Len(s)], 16)

\* Match a comes before match b: on an earlier line, or further left on the same line.
Precedes(a, b) == a[1] < b[1] \/ (a[1] = b[1] /\ a[2] < b[2])

\* The value of the match that has exactly k matches before it.
MatchValue(k) ==
    LET m == CHOOSE a \in Matches : Cardinality({b \in Matches : Precedes(b, a)}) = k
    IN  FromHexDigits(Annotations[m[1]][m[2]])

\* The run got past extract_interaction_elements.
Extracted == pc \in {"products", "assembled", "done", "written", "write_failed"}

\* C27: z and alpha are the first and the second interaction element found
\* on the annotation lines in order, left to right on a line, whatever
\* matches follow; with fewer than two matches the run aborts and neither a
\* document nor an output file is produced.
C27_FirstTwoMatches ==
    /\ Extracted =>
           /\ Cardinality(Matches) >= 2
           /\ z = MatchValue(0)
           /\ alpha = MatchValue(1)
    /\ Cardinality(Matches) < 2 =>
           /\ pc \in {"start", "converted", "facts", "without_products", "panicked"}
           /\ verifier_input = <<>>
           /\ output_file = <<>>

\* Two matches on the first line and a third, ignored, on the second.
C27_Witness ==
    /\ pc = "written"
    /\ Annotations = << <<<<"0">>, <<"0">>>>, <<<<"5">>>> >>
    /\ output_file[1].z = 0
    /\ output_file[1].alpha = 0

\* The numbers of trace statements, FRI statements and continuous pages.
NTrace == Cardinality(split_proofs.merkle_statements)
NFri   == split_proofs.fri_merkle_statements
NPage  == split_proofs.continuous_pages

\* The name of the i-th call of a run that issues every call.
NameInOrder(i) ==
    IF i <= NTrace THEN <<"Trace", i - 1>>
    ELSE IF i <= NTrace + NFri THEN <<"FRI statement:", i - NTrace - 1>>
    ELSE IF i <= NTrace + NFri + NPage
         THEN <<"register continuous page:", i - NTrace - NFri - 1>>
    ELSE <<"Main proof">>

SuccessPrinted == \E i \in 1..Len(verify_printed) : verify_printed[i] = AllStepsCompleted

\* C28: the calls are issued in the order Trace 0.., FRI statement 0..,
\* register continuous page 0.., Main proof; every call but the last one
\* issued was mined with receipt status 1; a call that ended otherwise is the
\* last one and the run has aborted; the final success message is printed
\* only when the main proof, the last of all the calls, has receipt status 1.
C28_InOrderUntilFirstFailure ==
    /\ Len(sent) <= NTrace + NFri + NPage + 1
    /\ \A i \in 1..Len(sent) : sent[i].name = NameInOrder(i)
    /\ \A i \in 1..(Len(sent) - 1) : sent[i].outcome = "status_1"
    /\ (sent # <<>> /\ sent[Len(sent)].outcome # "status_1") => vpc \in {"failed", "panicked"}
    /\ vpc \in {"failed", "panicked"} => ~SuccessPrinted
    /\ SuccessPrinted =>
           /\ Len(sent) = NTrace + NFri + NPage + 1
           /\ sent[Len(sent)] = [name |-> <<"Main proof">>, outcome |-> "status_1"]

\* Two statements of each kind and two pages verified, then the main proof.
C28_Witness ==
    /\ vpc = "done"
    /\ SuccessPrinted
    /\ Len(sent) = 7
    /\ sent[2].name = <<"Trace", 1>>
    /\ sent[4].name = <<"FRI statement:", 1>>
    /\ sent[6].name = <<"register continuous page:", 1>>
    /\ sent[7].name = <<"Main proof">>

\* The fields the main-proof step reads.
RequiredFields == {"proof_params", "proof", "public_input", "z", "alpha", "task_metadata"}

\* C29: a transaction is sent only when input.json has been loaded and holds
\* parseable proof_params, proof, public_input, z, alpha and task_metadata;
\* a document written by prepare_input is accepted by the main-proof step,
\* and the cairo aux input is its public_input followed by z and alpha.
C29_InputLoadedBeforeSending ==
    /\ sent # <<>> =>
           /\ input_json # <<>>
           /\ RequiredFields \subseteq DOMAIN input_json[1]
           /\ MainProofArgs(input_json[1]) # <<>>
    /\ input_json = <<WrittenByPrepareInput>> =>
           /\ vpc \in {"encoded", "done", "failed"}
           /\ main_call # <<>>
           /\ main_call[1].cairo_aux_input = <<0, 3, 18, 3, 502>>

====
